---- MODULE Spec2Model ----
(***************************************************************************)
(* Voice-session time tracking of the Discord bot                          *)
(* (src/voice_tracker/voice_tracking.py): the three tables, the            *)
(* asyncio.Lock that guards them, and the handlers that call the           *)
(* VoiceTrackingService.                                                   *)
(*                                                                         *)
(* Time is counted in clock ticks, TicksPerSecond ticks to the second, so  *)
(* that int((ended_at - started_at).total_seconds()) truncates as it does  *)
(* in the code.  A table is a function from the primary keys of its rows;  *)
(* the write-only column voice_time.updated_at is left out.                *)
(*                                                                         *)
(* A coroutine is a task.  Everything a coroutine does between two         *)
(* suspension points at which another coroutine could touch its data is    *)
(* one step: the statements of one "async with self.db_lock" block (no     *)
(* other block can run while the lock is held), together with the          *)
(* synchronous code that follows the block up to the next acquire.         *)
(***************************************************************************)
EXTENDS Integers, Sequences, FiniteSets, TLC

BUCKETS == {"weekly", "monthly", "yearly", "alltime"}

\* (guild_id, user_id) of the non-bot members the client sees.
Members == {<<1, 7>>, <<2, 7>>}

\* The member the concurrent runs follow.
Watched == {<<1, 7>>}

\* (guild_id, user_id) of a bot account in the first guild.
Bots == {<<1, 9>>}

\* Mutant: no account counts as a bot.
IsBot_never(m) == FALSE

\* member.bot
IsBot(m) == m \in Bots

Channels == {101, 102}

\* Coroutines that may be in flight at once.
Tasks == {1, 2}

MaxTime == 4

MaxCalls == 2

\* BotConfig.leaderboard_limit as configured.
leaderboard_limit == 2

\* Users who have voice_time rows in the leaderboard runs, some of them no
\* longer seen by the client.
Ranked == {<<1, 7>>, <<1, 8>>, <<1, 9>>, <<2, 7>>}

\* The seconds a row holds at the start of a leaderboard run.
Stored == {1, 2}

TicksPerSecond == 2

NoChannel == 0

NoTask == 0

NoGuild == 0

VARIABLES
    clock,            \* datetime.now(timezone.utc), in ticks
    voice_time,       \* table voice_time: <<guild_id, user_id, bucket>> -> seconds
    active_sessions,  \* table active_sessions: <<guild_id, user_id>> -> row
    metadata,         \* table metadata: key -> value
    presence,         \* the client's cache: member -> voice channel or NoChannel
    db_lock,          \* asyncio.Lock: who holds it, who waits (FIFO)
    tasks,            \* per coroutine: where it is and its local variables
    calls,            \* handlers invoked so far
    last,             \* history: the lock block run last, with its coroutine's locals
    today,            \* datetime.now(self.config.timezone): index of the local date in Calendar
    resets_done,      \* history: <<bucket, label>> -> number of bulk deletes run for it
    committed,        \* the database file: the three tables as of the last commit
    bot,              \* VoiceTimeBot: which loops are running, whether service.db is open
    embed,            \* the duration rendered last, as sent in an embed
    week_start        \* history: member -> alltime seconds when the local week began

vars == <<clock, voice_time, active_sessions, metadata, presence, db_lock, tasks, calls, last,
          today, resets_done, committed, bot, embed, week_start>>

EmptyMap == [x \in {} |-> x]

\* int((ended_at - started_at).total_seconds()): truncation toward zero.
Duration(started_at, ended_at) ==
    IF ended_at >= started_at
    THEN (ended_at - started_at) \div TicksPerSecond
    ELSE 0 - ((started_at - ended_at) \div TicksPerSecond)

Key(m, bucket) == <<m[1], m[2], bucket>>

\* Mutant: ON CONFLICT DO UPDATE SET seconds = excluded.seconds.
_apply_duration_overwrite(vt, m, duration) ==
    [k \in DOMAIN vt \cup {Key(m, b) : b \in BUCKETS} |->
        IF k[1] = m[1] /\ k[2] = m[2] THEN duration ELSE vt[k]]

\* Mutant: the alltime bucket is left out of the params.
_apply_duration_no_alltime(vt, m, duration) ==
    [k \in DOMAIN vt \cup {Key(m, b) : b \in BUCKETS \ {"alltime"}} |->
        IF k[1] = m[1] /\ k[2] = m[2] /\ k[3] # "alltime"
        THEN (IF k \in DOMAIN vt THEN vt[k] + duration ELSE duration)
        ELSE vt[k]]

\* INSERT ... ON CONFLICT DO UPDATE SET seconds = seconds + excluded.seconds,
\* once per bucket.
_apply_duration(vt, m, duration) ==
    [k \in DOMAIN vt \cup {Key(m, b) : b \in BUCKETS} |->
        IF k[1] = m[1] /\ k[2] = m[2]
        THEN (IF k \in DOMAIN vt THEN vt[k] + duration ELSE duration)
        ELSE vt[k]]

\* Mutant: INSERT OR REPLACE INTO active_sessions.
_start_session_locked_replace(sessions, m, channel_id, started_at) ==
    [k \in DOMAIN sessions \cup {m} |->
        IF k = m THEN [channel_id |-> channel_id, started_at |-> started_at]
        ELSE sessions[k]]

\* INSERT INTO active_sessions ... ON CONFLICT(guild_id, user_id) DO NOTHING
_start_session_locked(sessions, m, channel_id, started_at) ==
    IF m \in DOMAIN sessions
    THEN sessions
    ELSE [k \in DOMAIN sessions \cup {m} |->
            IF k = m THEN [channel_id |-> channel_id, started_at |-> started_at]
            ELSE sessions[k]]

\* Mutant: the duration is added without the test "if duration > 0".
_finalize_session_locked_unguarded(vt, sessions, m, started_at, ended_at) ==
    [voice_time |-> _apply_duration(vt, m, Duration(started_at, ended_at)),
     active_sessions |-> [k \in DOMAIN sessions \ {m} |-> sessions[k]]]

\* duration = int(...); if duration > 0: _apply_duration(...); then
\* DELETE FROM active_sessions WHERE guild_id = ? AND user_id = ?
_finalize_session_locked(vt, sessions, m, started_at, ended_at) ==
    [voice_time |->
        IF Duration(started_at, ended_at) > 0
        THEN _apply_duration(vt, m, Duration(started_at, ended_at))
        ELSE vt,
     active_sessions |-> [k \in DOMAIN sessions \ {m} |-> sessions[k]]]

----------------------------------------------------------------------------
(* Local dates and the labels of the periodic resets.  The bot is watched on  *)
(* the dates of Calendar, in this order: a Sunday, a Monday that is January   *)
(* 1, the Monday after it, and a first of the month that is a Thursday.       *)

Calendar ==
    << [year |-> 2023, month |-> 12, day |-> 31, weekday |-> 6],
       [year |-> 2024, month |-> 1, day |-> 1, weekday |-> 0],
       [year |-> 2024, month |-> 1, day |-> 8, weekday |-> 0],
       [year |-> 2024, month |-> 2, day |-> 1, weekday |-> 3] >>

\* fetchone() found no row (None).
NoRow == <<>>

\* No now_local taken yet.
NoDate == 0

\* get_metadata found no row (None).
NoLabel == <<>>

\* Mutant: the weekly reset fires on every day but Monday.
ResetDue_not_monday(bucket, d) ==
    CASE bucket = "weekly" -> d.weekday # 0
      [] bucket = "monthly" -> d.day = 1
      [] bucket = "yearly" -> d.month = 1 /\ d.day = 1
      [] OTHER -> FALSE

\* The day test at the head of _handle_weekly_reset, _handle_monthly_reset and
\* _handle_yearly_reset; there is no handler for "alltime".
ResetDue(bucket, d) ==
    CASE bucket = "weekly" -> d.weekday = 0
      [] bucket = "monthly" -> d.day = 1
      [] bucket = "yearly" -> d.month = 1 /\ d.day = 1
      [] OTHER -> FALSE

\* date().isoformat(), strftime("%Y-%m"), strftime("%Y")
ResetLabel(bucket, d) ==
    CASE bucket = "weekly" -> <<d.year, d.month, d.day>>
      [] bucket = "monthly" -> <<d.year, d.month>>
      [] OTHER -> <<d.year>>

\* "weekly_reset", "monthly_reset", "yearly_reset"
ResetKey(bucket) ==
    CASE bucket = "weekly" -> "weekly_reset"
      [] bucket = "monthly" -> "monthly_reset"
      [] OTHER -> "yearly_reset"

\* Mutant: the lookup never finds the row.
GetMetadata_none(md, key) == NoLabel

\* SELECT value FROM metadata WHERE key = ?; row[0] if row else None
GetMetadata(md, key) == IF key \in DOMAIN md THEN md[key] ELSE NoLabel

\* INSERT INTO metadata ... ON CONFLICT(key) DO UPDATE SET value = excluded.value
SetMetadata(md, key, value) ==
    [k \in DOMAIN md \cup {key} |-> IF k = key THEN value ELSE md[k]]

\* Mutant: DELETE FROM voice_time with no WHERE clause.
DeleteBucket_every_row(vt, bucket) == EmptyMap

\* DELETE FROM voice_time WHERE bucket = '<bucket>'
DeleteBucket(vt, bucket) ==
    [k \in {x \in DOMAIN vt : x[3] # bucket} |-> vt[k]]

----------------------------------------------------------------------------
(* The connection and its transaction.  The tables are what the one shared    *)
(* connection sees, its own uncommitted statements included; committed is     *)
(* what the file holds.  The connection opens a transaction at its first      *)
(* INSERT, UPDATE or DELETE and keeps it open until commit().                 *)

Tables == [voice_time |-> voice_time, active_sessions |-> active_sessions,
           metadata |-> metadata]

\* await self.db.commit(): everything the connection has written is persisted.
Commit ==
    committed' = [voice_time |-> voice_time', active_sessions |-> active_sessions',
                  metadata |-> metadata']

----------------------------------------------------------------------------
(* VoiceTimeBot: setup_hook connects the service and starts both loops.  *)

\* Loop.next_iteration of the flush loop is kept for the runs that follow the
\* loop's timing.
Started ==
    [rollover_loop |-> TRUE, session_flush_loop |-> TRUE, db |-> TRUE, next_iteration |-> 0]

\* Nothing rendered yet.
NoEmbed == <<>>

\* @tasks.loop(minutes=1), with the minute scaled down to one second.
FlushInterval == TicksPerSecond

\* Mutant: the loop body has no try/except, and the exception stops the loop.
LoopAfterError_uncaught(b, entry) ==
    IF entry = "session_flush_loop" THEN [b EXCEPT !.session_flush_loop = FALSE]
    ELSE IF entry = "rollover_loop" THEN [b EXCEPT !.rollover_loop = FALSE]
    ELSE b

\* try: ... except Exception: log.exception(...): the loop body returns and the
\* loop stays running; an exception in another handler is logged by its caller.
LoopAfterError(b, entry) == b

----------------------------------------------------------------------------
(* asyncio.Lock: acquire() takes a free lock at once only when nobody waits, *)
(* otherwise the caller queues; release() hands the lock to the first waiter. *)

Acquire(lock, t) ==
    IF lock.holder = NoTask /\ lock.waiters = <<>>
    THEN [holder |-> t, waiters |-> <<>>]
    ELSE [lock EXCEPT !.waiters = Append(@, t)]

\* Mutant: release() frees the lock and wakes no waiter.
Release_no_wakeup(lock) == [lock EXCEPT !.holder = NoTask]

Release(lock) ==
    IF lock.waiters = <<>>
    THEN [holder |-> NoTask, waiters |-> <<>>]
    ELSE [holder |-> Head(lock.waiters), waiters |-> Tail(lock.waiters)]

----------------------------------------------------------------------------
(* Coroutines. *)

\* first, alone and error are history: alone says that no other task has run a
\* lock block since this handler's first one, error that the block raised.
Idle ==
    [pc |-> "idle", entry |-> "none", event |-> EmptyMap, todo |-> <<>>,
     args |-> EmptyMap, now |-> 0, rows |-> EmptyMap, live_voice |-> EmptyMap,
     finalize_ops |-> EmptyMap, start_ops |-> EmptyMap,
     now_local |-> NoDate, last_reset |-> NoLabel,
     top_rows |-> <<>>, subject_stats |-> NoRow,
     first |-> FALSE, alone |-> FALSE, error |-> FALSE]

\* Task slots have no identity: a new coroutine takes the lowest free one.
Free(t) == tasks[t].pc = "idle" /\ \A x \in Tasks : x < t => tasks[x].pc # "idle"

Call(op, args) == [op |-> op, args |-> args]

\* The service calls that take no "now" before they ask for the lock.
NoNowOps ==
    {"start_session", "get_metadata", "fetch_leaderboard", "fetch_user_position",
     "clear_guild_stats", "cancel", "close"}

\* The calls of VoiceTimeBot.close that do not take db_lock: Loop.cancel() with
\* the wait for the loop, and VoiceTrackingService.close().
NoLockOps == {"cancel", "close"}

\* handle_periodic_resets after its sync: now_local is taken, and a reset
\* handler whose day test fails returns before any storage call.
DueResets(rec) ==
    IF rec.todo # <<>> /\ Head(rec.todo).op = "get_metadata" /\ rec.now_local = NoDate
    THEN LET Due(c) == ResetDue(c.args.bucket, Calendar[today])
         IN [rec EXCEPT !.now_local = today, !.todo = SelectSeq(@, Due)]
    ELSE rec

\* The coroutine goes on to its next service call: the call takes its "now"
\* (start_session takes none before the lock) and asks for the lock (the calls
\* of NoLockOps do not); with no call left the handler returns.
Begin(t, rec, lock) ==
    LET r == DueResets(rec)
    IN IF r.todo = <<>>
       THEN [task |-> Idle, lock |-> lock]
       ELSE [task |-> [r EXCEPT !.pc = Head(r.todo).op,
                                !.args = Head(r.todo).args,
                                !.todo = Tail(r.todo),
                                !.now = IF Head(r.todo).op \in NoNowOps
                                        THEN @ ELSE clock],
             lock |-> IF Head(r.todo).op \in NoLockOps THEN lock ELSE Acquire(lock, t)]

\* A handler is invoked in a free task slot.
Invoke(t, entry, todo) ==
    /\ calls < MaxCalls
    /\ Free(t)
    /\ calls' = calls + 1
    /\ LET b == Begin(t, [Idle EXCEPT !.entry = entry, !.todo = todo, !.first = TRUE],
                      db_lock)
       IN /\ tasks' = [tasks EXCEPT ![t] = b.task]
          /\ db_lock' = b.lock
    /\ UNCHANGED last

\* What a block leaves in its coroutine's record.
After(rec) == [rec EXCEPT !.first = FALSE, !.alone = IF rec.first THEN TRUE ELSE @]

\* The end of a lock block of task t: the lock is released, t goes on with rec,
\* and every other task has seen another block run.
Leave(t, rec) ==
    LET b == Begin(t, After(rec), Release(db_lock))
    IN /\ tasks' = [x \in Tasks |->
                      IF x = t THEN b.task ELSE [tasks[x] EXCEPT !.alone = FALSE]]
       /\ db_lock' = b.lock
       /\ last' = After(rec)

\* The block goes on to a second block of the same call (pc), without
\* returning: release, then acquire again.
Again(t, rec, pc) ==
    /\ tasks' = [x \in Tasks |->
                   IF x = t
                   THEN [After(rec) EXCEPT !.pc = pc]
                   ELSE [tasks[x] EXCEPT !.alone = FALSE]]
    /\ db_lock' = Acquire(Release(db_lock), t)
    /\ last' = After(rec)

\* Task t is in the lock block pc; its statements run on the open connection.
Holds(t, pc) == tasks[t].pc = pc /\ db_lock.holder = t /\ bot.db

----------------------------------------------------------------------------
(* The environment and the handlers of VoiceTimeBot. *)

Tick ==
    /\ clock < MaxTime
    /\ clock' = clock + 1
    /\ UNCHANGED <<bot, embed, week_start, committed, today, resets_done, voice_time, active_sessions, metadata, presence, db_lock, tasks, calls, last>>

\* A member's voice state changes and the client dispatches
\* on_voice_state_update(member, before, after) as a new task.
VoiceStateUpdate(t, m, c) ==
    /\ calls < MaxCalls
    /\ Free(t)
    /\ c # presence[m]
    /\ calls' = calls + 1
    /\ presence' = [presence EXCEPT ![m] = c]
    /\ tasks' = [tasks EXCEPT ![t] =
                    [Idle EXCEPT !.pc = "dispatched", !.entry = "on_voice_state_update",
                                 !.first = TRUE,
                                 !.event = [member |-> m, before |-> presence[m], after |-> c]]]
    /\ UNCHANGED <<bot, embed, week_start, committed, today, resets_done, clock, voice_time, active_sessions, metadata, db_lock, last>>

\* A member's voice state changes within the channel (mute, deafen, stream):
\* the event has the same channel before and after.
VoiceStateChange(t, m) ==
    /\ calls < MaxCalls
    /\ Free(t)
    /\ presence[m] # NoChannel
    /\ calls' = calls + 1
    /\ tasks' = [tasks EXCEPT ![t] =
                    [Idle EXCEPT !.pc = "dispatched", !.entry = "on_voice_state_update",
                                 !.first = TRUE,
                                 !.event = [member |-> m, before |-> presence[m],
                                            after |-> presence[m]]]]
    /\ UNCHANGED <<bot, embed, week_start, committed, today, resets_done, clock, voice_time,
                   active_sessions, metadata, presence, db_lock, last>>

\* A voice state change the bot never hears of (it is down or disconnected).
MissedVoiceStateUpdate(m, c) ==
    /\ calls < MaxCalls
    /\ c # presence[m]
    /\ calls' = calls + 1
    /\ presence' = [presence EXCEPT ![m] = c]
    /\ UNCHANGED <<bot, embed, week_start, committed, today, resets_done, clock, voice_time, active_sessions, metadata, db_lock, tasks, last>>

\* Mutant: a move starts the new session with before.channel.id.
VoiceStateCalls_before_channel(m, before, after) ==
    IF before = NoChannel /\ after # NoChannel
    THEN <<Call("start_session", [member |-> m, channel_id |-> after])>>
    ELSE IF before # NoChannel /\ after = NoChannel
    THEN <<Call("end_session", [member |-> m])>>
    ELSE IF before # NoChannel /\ after # NoChannel /\ before # after
    THEN <<Call("end_session", [member |-> m]),
           Call("start_session", [member |-> m, channel_id |-> before])>>
    ELSE <<>>

\* The service calls on_voice_state_update makes for (before, after).
VoiceStateCalls(m, before, after) ==
    IF IsBot(m)
    THEN <<>>
    ELSE IF before = NoChannel /\ after # NoChannel
    THEN <<Call("start_session", [member |-> m, channel_id |-> after])>>
    ELSE IF before # NoChannel /\ after = NoChannel
    THEN <<Call("end_session", [member |-> m])>>
    ELSE IF before # NoChannel /\ after # NoChannel /\ before # after
    THEN <<Call("end_session", [member |-> m]),
           Call("start_session", [member |-> m, channel_id |-> after])>>
    ELSE <<>>

on_voice_state_update(t) ==
    /\ tasks[t].pc = "dispatched"
    /\ LET a == tasks[t].event
           b == Begin(t, [tasks[t] EXCEPT !.todo = VoiceStateCalls(a.member, a.before, a.after)],
                      db_lock)
       IN /\ tasks' = [tasks EXCEPT ![t] = b.task]
          /\ db_lock' = b.lock
    /\ UNCHANGED <<bot, embed, week_start, committed, today, resets_done, clock, voice_time, active_sessions, metadata, presence, calls, last>>

\* One tick of the flush loop; the loop runs one tick at a time.
session_flush_loop(t) ==
    /\ bot.session_flush_loop
    /\ \A x \in Tasks : tasks[x].entry # "session_flush_loop"
    /\ Invoke(t, "session_flush_loop",
              <<Call("sync_active_sessions", [guild_id |-> NoGuild])>>)
    /\ UNCHANGED <<bot, embed, week_start, committed, today, resets_done, clock, voice_time, active_sessions, metadata, presence>>

on_ready(t) ==
    /\ Invoke(t, "on_ready", <<Call("reconcile_active_sessions", EmptyMap)>>)
    /\ UNCHANGED <<bot, embed, week_start, committed, today, resets_done, clock, voice_time, active_sessions, metadata, presence>>

----------------------------------------------------------------------------
(* VoiceTrackingService: one action per lock block. *)

start_session(t) ==
    /\ Holds(t, "start_session")
    /\ active_sessions' = _start_session_locked(active_sessions, tasks[t].args.member,
                                                tasks[t].args.channel_id, clock)
    /\ Leave(t, tasks[t])
    /\ UNCHANGED <<bot, embed, week_start, today, resets_done, clock, voice_time, metadata, presence, calls>>
    /\ Commit

\* Mutant: the query lacks "guild_id = ? AND", and fetchone() takes a row of the
\* user in any guild.
SelectStartedAt_any_guild(sessions, m) ==
    IF \E x \in DOMAIN sessions : x[2] = m[2]
    THEN [k \in {m} |-> sessions[CHOOSE x \in DOMAIN sessions : x[2] = m[2]].started_at]
    ELSE EmptyMap

\* SELECT started_at FROM active_sessions WHERE guild_id = ? AND user_id = ?,
\* fetchone(): the row of m, or none.
SelectStartedAt(sessions, m) ==
    [k \in {m} \cap DOMAIN sessions |-> sessions[k].started_at]

\* A row that is None returns at once.
end_session(t) ==
    /\ Holds(t, "end_session")
    /\ LET m == tasks[t].args.member
           row == SelectStartedAt(active_sessions, m)
           found == m \in DOMAIN row
           f == _finalize_session_locked(voice_time, active_sessions, m, row[m], tasks[t].now)
       IN /\ voice_time' = IF found THEN f.voice_time ELSE voice_time
          /\ active_sessions' = IF found THEN f.active_sessions ELSE active_sessions
          /\ Leave(t, [tasks[t] EXCEPT !.rows = row])
    /\ UNCHANGED <<bot, embed, week_start, today, resets_done, clock, metadata, presence, calls>>
    /\ IF tasks[t].args.member \in DOMAIN active_sessions THEN Commit ELSE UNCHANGED committed

\* Mutant: the WHERE guild_id = ? is left out.
SyncRows_every_guild(sessions, guild_id) ==
    [m \in DOMAIN sessions |-> sessions[m].started_at]

\* SELECT guild_id, user_id, started_at FROM active_sessions [WHERE guild_id = ?]
SyncRows(sessions, guild_id) ==
    [m \in {x \in DOMAIN sessions : guild_id = NoGuild \/ x[1] = guild_id} |->
        sessions[m].started_at]

\* Mutant: every row is skipped, so the sync writes nothing.
DurationUpdates_none(rows, now) == EmptyMap

\* duration_updates (and session_updates, which lists the same members).
DurationUpdates(rows, now) ==
    [m \in {x \in DOMAIN rows : Duration(rows[x], now) > 0} |-> Duration(rows[m], now)]

\* for gid, uid, dur in duration_updates: await self._apply_duration(...)
RECURSIVE ApplyDurations(_, _)
ApplyDurations(vt, updates) ==
    IF DOMAIN updates = {}
    THEN vt
    ELSE LET m == CHOOSE x \in DOMAIN updates : TRUE
         IN ApplyDurations(_apply_duration(vt, m, updates[m]),
                           [x \in DOMAIN updates \ {m} |-> updates[x]])

\* Mutant: the UPDATE of started_at is left out.
UpdateStartedAt_skip(sessions, members, now) == sessions

\* UPDATE active_sessions SET started_at = ? WHERE guild_id = ? AND user_id = ?
UpdateStartedAt(sessions, members, now) ==
    [m \in DOMAIN sessions |->
        IF m \in members THEN [sessions[m] EXCEPT !.started_at = now] ELSE sessions[m]]

\* The first block of sync_active_sessions reads; no row, or no duration to
\* add, returns.
sync_active_sessions(t) ==
    /\ Holds(t, "sync_active_sessions")
    /\ LET rows == SyncRows(active_sessions, tasks[t].args.guild_id)
           rec == [tasks[t] EXCEPT !.rows = rows]
       IN IF DOMAIN DurationUpdates(rows, tasks[t].now) = {}
          THEN Leave(t, rec)
          ELSE Again(t, rec, "sync_write")
    /\ UNCHANGED <<bot, embed, week_start, committed, today, resets_done, clock, voice_time, active_sessions, metadata, presence, calls>>

\* The second block writes what the first block's rows gave.
sync_write(t) ==
    /\ Holds(t, "sync_write")
    /\ LET updates == DurationUpdates(tasks[t].rows, tasks[t].now)
       IN /\ voice_time' = ApplyDurations(voice_time, updates)
          /\ active_sessions' = UpdateStartedAt(active_sessions, DOMAIN updates, tasks[t].now)
    /\ Leave(t, tasks[t])
    /\ UNCHANGED <<bot, embed, week_start, today, resets_done, clock, metadata, presence, calls>>
    /\ Commit

\* live_voice: the members in a voice or stage channel.
LiveVoice == [m \in {x \in Members : presence[x] # NoChannel} |-> presence[m]]

\* Mutant: no "continue" for a session recorded in its live channel.
FinalizeOps_all(recorded, live) ==
    [m \in DOMAIN recorded |-> recorded[m].started_at]

\* finalize_ops: the recorded sessions whose channel is not the live one.
FinalizeOps(recorded, live) ==
    [m \in {x \in DOMAIN recorded :
              ~(x \in DOMAIN live /\ live[x] = recorded[x].channel_id)} |->
        recorded[m].started_at]

\* Mutant: the loop over live_voice for members with no record is left out.
StartOps_recorded_only(recorded, live) ==
    [m \in {x \in DOMAIN live :
              x \in DOMAIN recorded /\ live[x] # recorded[x].channel_id} |->
        live[m]]

\* start_ops: the live members among finalize_ops, and those with no record.
StartOps(recorded, live) ==
    [m \in {x \in DOMAIN live :
              x \notin DOMAIN recorded \/ live[x] # recorded[x].channel_id} |->
        live[m]]

RECURSIVE FinalizeAll(_, _, _, _)
FinalizeAll(vt, sessions, ops, now) ==
    IF DOMAIN ops = {}
    THEN [voice_time |-> vt, active_sessions |-> sessions]
    ELSE LET m == CHOOSE x \in DOMAIN ops : TRUE
             f == _finalize_session_locked(vt, sessions, m, ops[m], now)
         IN FinalizeAll(f.voice_time, f.active_sessions,
                        [x \in DOMAIN ops \ {m} |-> ops[x]], now)

RECURSIVE StartAll(_, _, _)
StartAll(sessions, ops, started_at) ==
    IF DOMAIN ops = {}
    THEN sessions
    ELSE LET m == CHOOSE x \in DOMAIN ops : TRUE
         IN StartAll(_start_session_locked(sessions, m, ops[m], started_at),
                     [x \in DOMAIN ops \ {m} |-> ops[x]], started_at)

\* The first block of reconcile_active_sessions reads every recorded session;
\* the client's cache is then read; nothing to do returns.
reconcile_active_sessions(t) ==
    /\ Holds(t, "reconcile_active_sessions")
    /\ LET fin == FinalizeOps(active_sessions, LiveVoice)
           sta == StartOps(active_sessions, LiveVoice)
           rec == [tasks[t] EXCEPT !.live_voice = LiveVoice,
                                   !.finalize_ops = fin, !.start_ops = sta]
       IN IF DOMAIN fin = {} /\ DOMAIN sta = {}
          THEN Leave(t, rec)
          ELSE Again(t, rec, "reconcile_write")
    /\ UNCHANGED <<bot, embed, week_start, committed, today, resets_done, clock, voice_time, active_sessions, metadata, presence, calls>>

\* The second block finalizes, then starts.
reconcile_write(t) ==
    /\ Holds(t, "reconcile_write")
    /\ LET f == FinalizeAll(voice_time, active_sessions, tasks[t].finalize_ops, tasks[t].now)
       IN /\ voice_time' = f.voice_time
          /\ active_sessions' = StartAll(f.active_sessions, tasks[t].start_ops, clock)
    /\ Leave(t, tasks[t])
    /\ UNCHANGED <<bot, embed, week_start, today, resets_done, clock, metadata, presence, calls>>
    /\ Commit

\* The rows of (guild_id, bucket) as <<user_id, seconds>>.
RowsOf(vt, guild_id, bucket) ==
    {<<k[2], vt[k]>> : k \in {x \in DOMAIN vt : x[1] = guild_id /\ x[3] = bucket}}

\* Mutant: ORDER BY seconds ASC.
RECURSIVE OrderBySecondsDesc_asc(_)
OrderBySecondsDesc_asc(rows) ==
    IF rows = {}
    THEN {<<>>}
    ELSE UNION {{<<r>> \o rest : rest \in OrderBySecondsDesc_asc(rows \ {r})} :
                   r \in {x \in rows : \A y \in rows : x[2] <= y[2]}}

\* ORDER BY seconds DESC: every order the database may return, rows with equal
\* seconds in any order.
RECURSIVE OrderBySecondsDesc(_)
OrderBySecondsDesc(rows) ==
    IF rows = {}
    THEN {<<>>}
    ELSE UNION {{<<r>> \o rest : rest \in OrderBySecondsDesc(rows \ {r})} :
                   r \in {x \in rows : \A y \in rows : x[2] >= y[2]}}

\* LIMIT ?
Limit(rows, limit) == SubSeq(rows, 1, IF Len(rows) < limit THEN Len(rows) ELSE limit)

\* Mutant: the rank counts the rows of the bucket in every guild.
Rank_every_guild(vt, guild_id, user_id, bucket) ==
    1 + Cardinality({k \in DOMAIN vt :
                        k[3] = bucket /\ vt[k] > vt[<<guild_id, user_id, bucket>>]})

\* SELECT COUNT(*) + 1 FROM voice_time vt2 WHERE vt2.guild_id = ... AND
\* vt2.bucket = ... AND vt2.seconds > voice_time.seconds
Rank(vt, guild_id, user_id, bucket) ==
    1 + Cardinality({k \in DOMAIN vt :
                        k[1] = guild_id /\ k[3] = bucket
                           /\ vt[k] > vt[<<guild_id, user_id, bucket>>]})

\* Mutant: a user with no row gets a zero row of rank 1.
FetchUserPosition_zero_row(vt, guild_id, user_id, bucket) ==
    IF <<guild_id, user_id, bucket>> \in DOMAIN vt
    THEN <<vt[<<guild_id, user_id, bucket>>], Rank(vt, guild_id, user_id, bucket)>>
    ELSE <<0, 1>>

\* (row[0], row[1]) if row else None
FetchUserPosition(vt, guild_id, user_id, bucket) ==
    IF <<guild_id, user_id, bucket>> \in DOMAIN vt
    THEN <<vt[<<guild_id, user_id, bucket>>], Rank(vt, guild_id, user_id, bucket)>>
    ELSE NoRow

\* A leaderboard command: sync of the guild, the top rows, the subject's rank.
_render_leaderboard(t, guild_id, bucket, user_id) ==
    /\ Invoke(t, "_render_leaderboard",
              <<Call("sync_active_sessions", [guild_id |-> guild_id]),
                Call("fetch_leaderboard", [guild_id |-> guild_id, bucket |-> bucket]),
                Call("fetch_user_position",
                     [guild_id |-> guild_id, user_id |-> user_id, bucket |-> bucket])>>)
    /\ UNCHANGED <<bot, embed, week_start, committed, today, resets_done, clock, voice_time, active_sessions, metadata, presence>>

fetch_leaderboard(t) ==
    /\ Holds(t, "fetch_leaderboard")
    /\ \E rows \in OrderBySecondsDesc(RowsOf(voice_time, tasks[t].args.guild_id,
                                              tasks[t].args.bucket)) :
          Leave(t, [tasks[t] EXCEPT !.top_rows = Limit(rows, leaderboard_limit)])
    /\ UNCHANGED <<bot, embed, week_start, committed, today, resets_done, clock, voice_time, active_sessions, metadata, presence,
                   calls>>

fetch_user_position(t) ==
    /\ Holds(t, "fetch_user_position")
    /\ Leave(t, [tasks[t] EXCEPT !.subject_stats =
                    FetchUserPosition(voice_time, tasks[t].args.guild_id,
                                      tasks[t].args.user_id, tasks[t].args.bucket)])
    /\ UNCHANGED <<bot, embed, week_start, committed, today, resets_done, clock, voice_time, active_sessions, metadata, presence,
                   calls>>

\* Mutant: the sessions of every guild are deleted.
ClearSessions_every_guild(sessions, guild_id) == EmptyMap

\* DELETE FROM active_sessions WHERE guild_id = ?
ClearSessions(sessions, guild_id) ==
    [m \in {x \in DOMAIN sessions : x[1] # guild_id} |-> sessions[m]]

\* Mutant: DELETE FROM voice_time with no WHERE clause.
ClearVoiceTime_every_guild(vt, guild_id) == EmptyMap

\* DELETE FROM voice_time WHERE guild_id = ?
ClearVoiceTime(vt, guild_id) ==
    [k \in {x \in DOMAIN vt : x[1] # guild_id} |-> vt[k]]

clear_guild_stats(t) ==
    /\ Holds(t, "clear_guild_stats")
    /\ voice_time' = ClearVoiceTime(voice_time, tasks[t].args.guild_id)
    /\ active_sessions' = ClearSessions(active_sessions, tasks[t].args.guild_id)
    /\ Leave(t, tasks[t])
    /\ UNCHANGED <<bot, embed, week_start, today, resets_done, clock, metadata, presence, calls>>
    /\ Commit

\* The maintainer's /timeclean in interaction.guild: clear_guild_stats, then
\* reconcile.
timeclean(t, guild_id) ==
    /\ calls < MaxCalls
    /\ Free(t)
    /\ calls' = calls + 1
    /\ LET b == Begin(t, [Idle EXCEPT !.entry = "timeclean", !.first = TRUE,
                                      !.event = [guild_id |-> guild_id],
                                      !.todo = <<Call("clear_guild_stats",
                                                      [guild_id |-> guild_id]),
                                                 Call("reconcile_active_sessions",
                                                      EmptyMap)>>],
                      db_lock)
       IN /\ tasks' = [tasks EXCEPT ![t] = b.task]
          /\ db_lock' = b.lock
    /\ UNCHANGED last
    /\ UNCHANGED <<bot, embed, week_start, committed, today, resets_done, clock, voice_time, active_sessions, metadata, presence>>

\* sync_active_sessions(), then the weekly, monthly and yearly handlers.
handle_periodic_resets ==
    <<Call("sync_active_sessions", [guild_id |-> NoGuild]),
      Call("get_metadata", [bucket |-> "weekly"]),
      Call("get_metadata", [bucket |-> "monthly"]),
      Call("get_metadata", [bucket |-> "yearly"])>>

\* One tick of the reset loop; the loop runs one tick at a time.
rollover_loop(t) ==
    /\ bot.rollover_loop
    /\ \A x \in Tasks : tasks[x].entry # "rollover_loop"
    /\ Invoke(t, "rollover_loop", handle_periodic_resets)
    /\ UNCHANGED <<bot, embed, week_start, committed, today, resets_done, clock, voice_time, active_sessions, metadata, presence>>

\* A reset handler reads the stored label; the label of now_local returns.
get_metadata(t) ==
    /\ Holds(t, "get_metadata")
    /\ LET bucket == tasks[t].args.bucket
           last_reset == GetMetadata(metadata, ResetKey(bucket))
           rec == [tasks[t] EXCEPT !.last_reset = last_reset]
       IN IF last_reset = ResetLabel(bucket, Calendar[tasks[t].now_local])
          THEN Leave(t, rec)
          ELSE Again(t, rec, "delete_bucket")
    /\ UNCHANGED <<bot, embed, week_start, committed, today, resets_done, clock, voice_time, active_sessions, metadata, presence,
                   calls>>

\* The handler's own lock block: the bulk delete, committed.
delete_bucket(t) ==
    /\ Holds(t, "delete_bucket")
    /\ LET bucket == tasks[t].args.bucket
           done == <<bucket, ResetLabel(bucket, Calendar[tasks[t].now_local])>>
       IN /\ voice_time' = DeleteBucket(voice_time, bucket)
          /\ resets_done' = [p \in DOMAIN resets_done \cup {done} |->
                                (IF p \in DOMAIN resets_done THEN resets_done[p] ELSE 0)
                                   + (IF p = done THEN 1 ELSE 0)]
    /\ Again(t, tasks[t], "set_metadata")
    /\ UNCHANGED <<bot, embed, week_start, today, clock, active_sessions, metadata, presence, calls>>
    /\ Commit

\* The label is stored in a lock block of its own.
set_metadata(t) ==
    /\ Holds(t, "set_metadata")
    /\ LET bucket == tasks[t].args.bucket
       IN metadata' = SetMetadata(metadata, ResetKey(bucket),
                                  ResetLabel(bucket, Calendar[tasks[t].now_local]))
    /\ Leave(t, tasks[t])
    /\ UNCHANGED <<bot, embed, week_start, today, resets_done, clock, voice_time, active_sessions, presence, calls>>
    /\ Commit

----------------------------------------------------------------------------
(* Storage errors.  Any awaited statement of a lock block may raise.  No      *)
(* block catches the exception or calls rollback(): it leaves the "async      *)
(* with", which releases the lock, and the service call, and ends the         *)
(* handler (the loops' "except Exception" and the client's event dispatch     *)
(* log it).  What the block's earlier statements wrote stays in the           *)
(* connection's open transaction, unless SQLite itself rolled the             *)
(* transaction back on the error.                                             *)

Restrict(f, S) == [x \in S |-> f[x]]

WithTables(vt, sessions, md) == [voice_time |-> vt, active_sessions |-> sessions, metadata |-> md]

\* The tables after the statements a block of end_session has run when one of
\* them raises: none, the _apply_duration, or the DELETE as well (the commit
\* raises).
EndSessionPartial(t) ==
    LET m == tasks[t].args.member
        f == _finalize_session_locked(voice_time, active_sessions, m,
                                      active_sessions[m].started_at, tasks[t].now)
    IN IF m \in DOMAIN active_sessions
       THEN {Tables, WithTables(f.voice_time, active_sessions, metadata),
             WithTables(f.voice_time, f.active_sessions, metadata)}
       ELSE {Tables}

\* ... of the writing block of sync_active_sessions: some of the
\* _apply_duration calls, or all of them and some of the UPDATEs.
SyncWritePartial(t) ==
    LET updates == DurationUpdates(tasks[t].rows, tasks[t].now)
    IN {WithTables(ApplyDurations(voice_time, Restrict(updates, S)), active_sessions, metadata) :
           S \in SUBSET DOMAIN updates}
       \cup {WithTables(ApplyDurations(voice_time, updates),
                        UpdateStartedAt(active_sessions, S, tasks[t].now), metadata) :
                S \in SUBSET DOMAIN updates}

\* ... of the writing block of reconcile_active_sessions: some of the
\* finalize_ops, or all of them and some of the start_ops.
ReconcileWritePartial(t) ==
    LET fin == tasks[t].finalize_ops
        sta == tasks[t].start_ops
        all == FinalizeAll(voice_time, active_sessions, fin, tasks[t].now)
    IN {LET f == FinalizeAll(voice_time, active_sessions, Restrict(fin, S), tasks[t].now)
        IN WithTables(f.voice_time, f.active_sessions, metadata) : S \in SUBSET DOMAIN fin}
       \cup {LET f == FinalizeAll(voice_time, active_sessions, Restrict(fin, S), tasks[t].now)
             IN WithTables(f.voice_time, active_sessions, metadata) : S \in SUBSET DOMAIN fin}
       \cup {WithTables(all.voice_time, StartAll(all.active_sessions, Restrict(sta, S), clock),
                        metadata) : S \in SUBSET DOMAIN sta}

\* The tables a block may leave in the connection when it raises.
PartialWrites(t) ==
    LET pc == tasks[t].pc
        bucket == tasks[t].args.bucket
        guild_id == tasks[t].args.guild_id
    IN CASE pc = "end_session" -> EndSessionPartial(t)
         [] pc = "sync_write" -> SyncWritePartial(t)
         [] pc = "reconcile_write" -> ReconcileWritePartial(t)
         [] pc = "start_session" ->
              {Tables,
               WithTables(voice_time,
                          _start_session_locked(active_sessions, tasks[t].args.member,
                                                tasks[t].args.channel_id, clock),
                          metadata)}
         [] pc = "clear_guild_stats" ->
              {Tables,
               WithTables(ClearVoiceTime(voice_time, guild_id), active_sessions, metadata),
               WithTables(ClearVoiceTime(voice_time, guild_id),
                          ClearSessions(active_sessions, guild_id), metadata)}
         [] pc = "delete_bucket" ->
              {Tables, WithTables(DeleteBucket(voice_time, bucket), active_sessions, metadata)}
         [] pc = "set_metadata" ->
              {Tables,
               WithTables(voice_time, active_sessions,
                          SetMetadata(metadata, ResetKey(bucket),
                                      ResetLabel(bucket, Calendar[tasks[t].now_local])))}
         [] OTHER -> {Tables}

\* A statement of the block task t is in raises: the lock is released and the
\* handler ends; the commit has not run.
storage_error(t) ==
    /\ db_lock.holder = t
    /\ bot.db
    /\ \E left \in PartialWrites(t) \cup {committed} :
          /\ voice_time' = left.voice_time
          /\ active_sessions' = left.active_sessions
          /\ metadata' = left.metadata
    /\ tasks' = [x \in Tasks |-> IF x = t THEN Idle ELSE [tasks[x] EXCEPT !.alone = FALSE]]
    /\ db_lock' = Release(db_lock)
    /\ last' = [After(tasks[t]) EXCEPT !.error = TRUE]
    /\ bot' = LoopAfterError(bot, tasks[t].entry)
    /\ UNCHANGED <<embed, week_start, committed, today, resets_done, clock, presence, calls>>

----------------------------------------------------------------------------
(* Shutdown: VoiceTimeBot.close. *)

\* cancel() and wait for each running loop, one last sync_active_sessions(),
\* then VoiceTrackingService.close() and the client's own close.
close(t) ==
    /\ bot.db
    /\ \A x \in Tasks : tasks[x].entry # "close"
    /\ Invoke(t, "close",
              <<Call("cancel", [loop |-> "rollover_loop"]),
                Call("cancel", [loop |-> "session_flush_loop"]),
                Call("sync_active_sessions", [guild_id |-> NoGuild]),
                Call("close", EmptyMap)>>)
    /\ UNCHANGED <<bot, embed, week_start, committed, today, resets_done, clock, voice_time,
                   active_sessions, metadata, presence>>

\* The loop's task is cancelled at the await it is suspended in: waiting for
\* the lock it leaves the queue; inside a lock block it leaves the block, the
\* lock is released and what the block has written so far stays uncommitted in
\* the connection.  close() goes on when the task has ended.
cancel(t) ==
    /\ tasks[t].pc = "cancel"
    /\ LET loop == tasks[t].args.loop
           X == {x \in Tasks : tasks[x].entry = loop}
           Keep(w) == w \notin X
           lock == IF db_lock.holder \in X
                   THEN Release(db_lock)
                   ELSE [db_lock EXCEPT !.waiters = SelectSeq(@, Keep)]
           b == Begin(t, After(tasks[t]), lock)
       IN /\ \E left \in UNION ({{Tables}}
                                  \cup {PartialWrites(x) : x \in {y \in X : db_lock.holder = y}}) :
                /\ voice_time' = left.voice_time
                /\ active_sessions' = left.active_sessions
                /\ metadata' = left.metadata
          /\ tasks' = [y \in Tasks |->
                          IF y = t THEN b.task
                          ELSE IF y \in X THEN Idle
                          ELSE tasks[y]]
          /\ db_lock' = b.lock
          /\ bot' = [bot EXCEPT ![loop] = FALSE]
    /\ last' = After(tasks[t])
    /\ UNCHANGED <<embed, week_start, committed, today, resets_done, clock, presence, calls>>

\* await self.db.close(); self.db = None: the connection is closed without the
\* lock, and what it had not committed is gone.
service_close(t) ==
    /\ tasks[t].pc = "close"
    /\ bot' = [bot EXCEPT !.db = FALSE]
    /\ voice_time' = committed.voice_time
    /\ active_sessions' = committed.active_sessions
    /\ metadata' = committed.metadata
    /\ tasks' = [tasks EXCEPT ![t] = Begin(t, After(tasks[t]), db_lock).task]
    /\ last' = After(tasks[t])
    /\ UNCHANGED <<embed, week_start, committed, today, resets_done, clock, presence, calls,
                   db_lock>>

\* A lock block that finds self.db closed: its first statement raises, and the
\* handler ends.
store_closed(t) ==
    /\ db_lock.holder = t
    /\ ~bot.db
    /\ tasks' = [x \in Tasks |-> IF x = t THEN Idle ELSE tasks[x]]
    /\ db_lock' = Release(db_lock)
    /\ last' = [After(tasks[t]) EXCEPT !.error = TRUE]
    /\ UNCHANGED <<bot, embed, week_start, committed, today, resets_done, clock, voice_time,
                   active_sessions, metadata, presence, calls>>

----------------------------------------------------------------------------
(* The flush loop on its schedule: a tick starts FlushInterval after the one   *)
(* before it started, and is taken to be over before the clock moves on.       *)

\* A tick of the flush loop is running.
InFlight == \E t \in Tasks : tasks[t].entry = "session_flush_loop"

\* Time passes up to the moment the next tick is due.
TimedTick ==
    /\ ~InFlight
    /\ clock < bot.next_iteration
    /\ Tick

\* The tick that is due starts.
session_flush_tick(t) ==
    /\ bot.session_flush_loop
    /\ ~InFlight
    /\ clock >= bot.next_iteration
    /\ Free(t)
    /\ LET b == Begin(t, [Idle EXCEPT !.entry = "session_flush_loop", !.first = TRUE,
                                      !.todo = <<Call("sync_active_sessions",
                                                      [guild_id |-> NoGuild])>>],
                      db_lock)
       IN /\ tasks' = [tasks EXCEPT ![t] = b.task]
          /\ db_lock' = b.lock
    /\ bot' = [bot EXCEPT !.next_iteration = clock + FlushInterval]
    /\ UNCHANGED <<embed, week_start, committed, today, resets_done, clock, voice_time,
                   active_sessions, metadata, presence, calls, last>>

----------------------------------------------------------------------------
(* Rendering a duration. *)

\* The decimal digits of a natural number, most significant first.
RECURSIVE Digits(_)
Digits(n) == IF n < 10 THEN <<n>> ELSE Append(Digits(n \div 10), n % 10)

\* Mutant: the field is written without padding.
Format02d_unpadded(n) == Digits(n)

\* f"{n:02d}" of a natural number: its digits, with a zero in front of a single one.
Format02d(n) == IF Len(Digits(n)) < 2 THEN <<0>> \o Digits(n) ELSE Digits(n)

\* max(0, int(seconds)), then divmod by 3600 and by 60, then the f-string; its
\* three unit words (hours, minutes, seconds) are written "h ", "m " and "s".
humanize_duration(seconds) ==
    LET s         == IF seconds < 0 THEN 0 ELSE seconds
        hours     == s \div 3600
        remainder == s % 3600
        minutes   == remainder \div 60
        secs      == remainder % 60
    IN <<Format02d(hours), "h ", Format02d(minutes), "m ", Format02d(secs), "s">>

\* Totals that reach the renderer: below zero, under a minute, around the hour,
\* and with one, two and three digits in each field.
Durations ==
    (-3..3) \cup {h * 3600 + m * 60 + s : h \in {0, 1, 9, 10, 99, 100},
                                          m \in {0, 1, 9, 10, 59},
                                          s \in {0, 1, 9, 10, 59}}

\* The line of a leaderboard row is rendered.
render(t) ==
    /\ Free(t)
    /\ embed.text = NoEmbed
    /\ embed' = [embed EXCEPT !.text = humanize_duration(embed.seconds)]
    /\ UNCHANGED <<bot, week_start, committed, today, resets_done, clock, voice_time,
                   active_sessions, metadata, presence, db_lock, tasks, calls, last>>

\* The local date moves on to the next date of Calendar.
NextDay ==
    /\ today < Len(Calendar)
    /\ today' = today + 1
    /\ week_start' = [m \in {<<k[1], k[2]>> : k \in {x \in DOMAIN voice_time : x[3] = "alltime"}} |->
                         voice_time[Key(m, "alltime")]]
    /\ UNCHANGED <<bot, embed, committed, resets_done, clock, voice_time, active_sessions, metadata, presence,
                   db_lock, tasks, calls, last>>

\* The process stops with coroutines in flight and is started again: the
\* coroutines and the lock are gone, the database is as last committed.
Restart ==
    /\ \E t \in Tasks : tasks[t].pc # "idle"
    /\ tasks' = [t \in Tasks |-> Idle]
    /\ db_lock' = [holder |-> NoTask, waiters |-> <<>>]
    /\ voice_time' = committed.voice_time
    /\ active_sessions' = committed.active_sessions
    /\ metadata' = committed.metadata
    /\ bot' = Started
    /\ UNCHANGED <<embed, week_start, committed, today, resets_done, clock, presence, calls, last>>

----------------------------------------------------------------------------

\* The process has started on the database an earlier run left, which may hold
\* sessions of members who have since moved or left.
InitOf(ms) ==
    /\ clock = 0
    /\ voice_time = EmptyMap
    /\ \E S \in SUBSET ms :
          active_sessions \in [S -> [channel_id : Channels, started_at : {0}]]
    /\ metadata = EmptyMap
    /\ \E live \in [ms -> Channels \cup {NoChannel}] :
          presence = [m \in Members |-> IF m \in ms THEN live[m] ELSE NoChannel]
    /\ db_lock = [holder |-> NoTask, waiters |-> <<>>]
    /\ tasks = [t \in Tasks |-> Idle]
    /\ calls = 0
    /\ last = Idle
    /\ today = 1
    /\ resets_done = EmptyMap
    /\ committed = Tables
    /\ bot = Started
    /\ embed = NoEmbed
    /\ week_start = [m \in {} |-> 0]

NextOf(ts, ms) ==
    \/ Tick
    \/ \E m \in ms, c \in Channels \cup {NoChannel} : MissedVoiceStateUpdate(m, c)
    \/ \E t \in ts :
        \/ \E m \in ms, c \in Channels \cup {NoChannel} : VoiceStateUpdate(t, m, c)
        \/ on_voice_state_update(t)
        \/ session_flush_loop(t)
        \/ on_ready(t)
        \/ start_session(t)
        \/ end_session(t)
        \/ sync_active_sessions(t)
        \/ sync_write(t)
        \/ reconcile_active_sessions(t)
        \/ reconcile_write(t)

\* Coroutines interleave at the lock; one member is followed.
Init == InitOf(Watched)

Next == NextOf(Tasks, Watched)

Spec == Init /\ [][Next]_vars

\* One handler at a time, each run to its end; every member.
SeqInit == InitOf(Members)

SeqNext == NextOf({1}, Members)

SeqSpec == SeqInit /\ [][SeqNext]_vars

\* A user with an open session leaves while the flush loop ticks: the runs of
\* end_session and sync_active_sessions, and nothing else.
EndSyncInit ==
    /\ Init
    /\ \A m \in Watched : m \in DOMAIN active_sessions /\ presence[m] = active_sessions[m].channel_id

EndSyncNext ==
    \/ Tick
    \/ \E t \in Tasks :
        \/ \E m \in Watched : VoiceStateUpdate(t, m, NoChannel)
        \/ on_voice_state_update(t)
        \/ session_flush_loop(t)
        \/ end_session(t)
        \/ sync_active_sessions(t)
        \/ sync_write(t)

EndSyncSpec == EndSyncInit /\ [][EndSyncNext]_vars

\* The bot comes up with a recorded session that is not where the member is
\* now: reconcile_active_sessions closes it while presence events and the flush
\* loop go on.
ReconcileInit ==
    /\ Init
    /\ \A m \in Watched : m \in DOMAIN active_sessions /\ presence[m] # active_sessions[m].channel_id

ReconcileNext ==
    \/ Tick
    \/ \E t \in Tasks :
        \/ \E m \in Watched, c \in Channels \cup {NoChannel} : VoiceStateUpdate(t, m, c)
        \/ on_voice_state_update(t)
        \/ session_flush_loop(t)
        \/ on_ready(t)
        \/ start_session(t)
        \/ end_session(t)
        \/ sync_active_sessions(t)
        \/ sync_write(t)
        \/ reconcile_active_sessions(t)
        \/ reconcile_write(t)

ReconcileSpec == ReconcileInit /\ [][ReconcileNext]_vars

\* The reset loop alone, one tick at a time, every tick run to its end.
RolloverInit ==
    /\ InitOf(Members)
    /\ \A m \in Members :
          presence[m] = IF m \in DOMAIN active_sessions THEN active_sessions[m].channel_id
                        ELSE NoChannel

RolloverNext ==
    \/ Tick
    \/ NextDay
    \/ \E t \in {1} :
        \/ rollover_loop(t)
        \/ sync_active_sessions(t)
        \/ sync_write(t)
        \/ get_metadata(t)
        \/ delete_bucket(t)
        \/ set_metadata(t)

RolloverSpec == RolloverInit /\ [][RolloverNext]_vars

\* The reset loop beside the flush loop, with the process stopped and
\* started again at any point.
RestartNext ==
    \/ Tick
    \/ NextDay
    \/ Restart
    \/ \E t \in Tasks :
        \/ session_flush_loop(t)
        \/ rollover_loop(t)
        \/ sync_active_sessions(t)
        \/ sync_write(t)
        \/ get_metadata(t)
        \/ delete_bucket(t)
        \/ set_metadata(t)

\* Leaderboard commands over stored rows: every user of Ranked has no row, or
\* an alltime row and, unless the weekly bucket was reset since, a weekly row
\* of the same seconds.  Nobody is in a voice channel.
LeaderboardInit ==
    /\ clock = 0
    /\ \E W \in SUBSET Ranked : \E A \in SUBSET (Ranked \ W) :
          \E seconds \in [W \cup A -> Stored] :
             voice_time = [k \in {Key(m, "weekly") : m \in W}
                                   \cup {Key(m, "alltime") : m \in W \cup A} |->
                              seconds[<<k[1], k[2]>>]]
    /\ active_sessions = EmptyMap
    /\ metadata = EmptyMap
    /\ presence = [m \in Members |-> NoChannel]
    /\ db_lock = [holder |-> NoTask, waiters |-> <<>>]
    /\ tasks = [t \in Tasks |-> Idle]
    /\ calls = 0
    /\ last = Idle
    /\ today = 1
    /\ resets_done = EmptyMap
    /\ committed = Tables
    /\ bot = Started
    /\ embed = NoEmbed
    /\ week_start = [m \in {} |-> 0]

LeaderboardNext ==
    \E t \in {1} :
        \/ \E user_id \in {7, 8}, bucket \in {"weekly", "alltime"} :
              _render_leaderboard(t, 1, bucket, user_id)
        \/ sync_active_sessions(t)
        \/ fetch_leaderboard(t)
        \/ fetch_user_position(t)

LeaderboardSpec == LeaderboardInit /\ [][LeaderboardNext]_vars

\* The commands and the reset loop on persisted sessions, one handler at a
\* time.
CommandNext ==
    \/ Tick
    \/ NextDay
    \/ \E t \in {1} :
        \/ \E m \in Members : _render_leaderboard(t, m[1], "weekly", m[2])
        \/ \E m \in Members : timeclean(t, m[1])
        \/ rollover_loop(t)
        \/ sync_active_sessions(t)
        \/ sync_write(t)
        \/ fetch_leaderboard(t)
        \/ fetch_user_position(t)
        \/ clear_guild_stats(t)
        \/ reconcile_active_sessions(t)
        \/ reconcile_write(t)
        \/ get_metadata(t)
        \/ delete_bucket(t)
        \/ set_metadata(t)

CommandSpec == RolloverInit /\ [][CommandNext]_vars

RestartInit ==
    /\ Init
    /\ \A m \in Watched : m \in DOMAIN active_sessions /\ presence[m] = active_sessions[m].channel_id

RestartSpec == RestartInit /\ [][RestartNext]_vars

----------------------------------------------------------------------------
\* The flush loop and a member who leaves, with storage errors.
FailureInit == EndSyncInit

FailureNext ==
    \/ Tick
    \/ \E t \in Tasks :
        \/ \E m \in Watched : VoiceStateUpdate(t, m, NoChannel)
        \/ on_voice_state_update(t)
        \/ session_flush_loop(t)
        \/ end_session(t)
        \/ sync_active_sessions(t)
        \/ sync_write(t)
        \/ storage_error(t)

FailureSpec == FailureInit /\ [][FailureNext]_vars

\* Both loops on a persisted session, with storage errors.
LoopsNext ==
    \/ Tick
    \/ NextDay
    \/ \E t \in Tasks :
        \/ session_flush_loop(t)
        \/ rollover_loop(t)
        \/ sync_active_sessions(t)
        \/ sync_write(t)
        \/ get_metadata(t)
        \/ delete_bucket(t)
        \/ set_metadata(t)
        \/ storage_error(t)

LoopsSpec == RestartInit /\ [][LoopsNext]_vars

\* The bot is shut down while both loops tick on a persisted session and a
\* member of another guild joins.
ShutdownNext ==
    \/ Tick
    \/ \E t \in Tasks :
        \/ \E m \in Members \ Watched, c \in Channels : VoiceStateUpdate(t, m, c)
        \/ on_voice_state_update(t)
        \/ session_flush_loop(t)
        \/ rollover_loop(t)
        \/ start_session(t)
        \/ sync_active_sessions(t)
        \/ sync_write(t)
        \/ close(t)
        \/ cancel(t)
        \/ service_close(t)
        \/ store_closed(t)

ShutdownSpec == RestartInit /\ [][ShutdownNext]_vars

\* The flush loop on its schedule while a member joins, moves and leaves; the
\* loop's first tick comes up to an interval after the persisted session began.
FlushInit ==
    /\ \E first \in 0..(FlushInterval - 1) : bot = [Started EXCEPT !.next_iteration = first]
    /\ clock = 0
    /\ voice_time = EmptyMap
    /\ \E S \in SUBSET Watched :
          active_sessions \in [S -> [channel_id : Channels, started_at : {0}]]
    /\ metadata = EmptyMap
    /\ presence = [m \in Members |->
                      IF m \in DOMAIN active_sessions THEN active_sessions[m].channel_id
                      ELSE NoChannel]
    /\ db_lock = [holder |-> NoTask, waiters |-> <<>>]
    /\ tasks = [t \in Tasks |-> Idle]
    /\ calls = 0
    /\ last = Idle
    /\ today = 1
    /\ resets_done = EmptyMap
    /\ committed = Tables
    /\ embed = NoEmbed
    /\ week_start = [m \in {} |-> 0]

FlushNext ==
    \/ TimedTick
    \/ \E t \in Tasks :
        \/ \E m \in Watched, c \in Channels \cup {NoChannel} : VoiceStateUpdate(t, m, c)
        \/ on_voice_state_update(t)
        \/ session_flush_tick(t)
        \/ start_session(t)
        \/ end_session(t)
        \/ sync_active_sessions(t)
        \/ sync_write(t)

FlushSpec == FlushInit /\ [][FlushNext]_vars

\* A row's total is drawn from Durations and rendered.
HumanizeInit ==
    /\ embed \in [seconds : Durations, text : {NoEmbed}]
    /\ bot = Started
    /\ clock = 0
    /\ voice_time = EmptyMap
    /\ active_sessions = EmptyMap
    /\ metadata = EmptyMap
    /\ presence = [m \in Members |-> NoChannel]
    /\ db_lock = [holder |-> NoTask, waiters |-> <<>>]
    /\ tasks = [t \in Tasks |-> Idle]
    /\ calls = 0
    /\ last = Idle
    /\ today = 1
    /\ resets_done = EmptyMap
    /\ committed = Tables
    /\ week_start = [m \in {} |-> 0]

HumanizeNext == render(1)

HumanizeSpec == HumanizeInit /\ [][HumanizeNext]_vars

\* The event handlers alone: the watched member and a bot account join, move,
\* leave and mute, and the handlers of two events may be in flight at once.
AdapterInit ==
    /\ clock = 0
    /\ voice_time = EmptyMap
    /\ \E S \in SUBSET Watched :
          active_sessions \in [S -> [channel_id : Channels, started_at : {0}]]
    /\ metadata = EmptyMap
    /\ presence = [m \in Members \cup Bots |->
                      IF m \in DOMAIN active_sessions THEN active_sessions[m].channel_id
                      ELSE NoChannel]
    /\ db_lock = [holder |-> NoTask, waiters |-> <<>>]
    /\ tasks = [t \in Tasks |-> Idle]
    /\ calls = 0
    /\ last = Idle
    /\ today = 1
    /\ resets_done = EmptyMap
    /\ committed = Tables
    /\ bot = Started
    /\ embed = NoEmbed
    /\ week_start = [m \in {} |-> 0]

AdapterNext ==
    \/ Tick
    \/ \E t \in Tasks :
        \/ \E m \in Watched \cup Bots, c \in Channels \cup {NoChannel} : VoiceStateUpdate(t, m, c)
        \/ \E m \in Watched \cup Bots : VoiceStateChange(t, m)
        \/ on_voice_state_update(t)
        \/ start_session(t)
        \/ end_session(t)

AdapterSpec == AdapterInit /\ [][AdapterNext]_vars

\* A session from the join to the leave with flushes and leaderboard commands
\* in between, one operation at a time: every member joined at time 0 and is
\* still in that channel.
LifecycleInit ==
    /\ InitOf(Members)
    /\ DOMAIN active_sessions = Members
    /\ \A m \in Members : presence[m] = active_sessions[m].channel_id

LifecycleNext ==
    \/ Tick
    \/ \E t \in {1} :
        \/ \E m \in Members : VoiceStateUpdate(t, m, NoChannel)
        \/ on_voice_state_update(t)
        \/ session_flush_loop(t)
        \/ \E m \in Members : _render_leaderboard(t, m[1], "alltime", m[2])
        \/ end_session(t)
        \/ sync_active_sessions(t)
        \/ sync_write(t)
        \/ fetch_leaderboard(t)
        \/ fetch_user_position(t)

LifecycleSpec == LifecycleInit /\ [][LifecycleNext]_vars

\* The maintainer clears a guild while the flush loop and on_ready run.
ClearNext ==
    \/ Tick
    \/ \E t \in Tasks :
        \/ \E m \in Watched : timeclean(t, m[1])
        \/ session_flush_loop(t)
        \/ on_ready(t)
        \/ clear_guild_stats(t)
        \/ sync_active_sessions(t)
        \/ sync_write(t)
        \/ reconcile_active_sessions(t)
        \/ reconcile_write(t)

ClearSpec == Init /\ [][ClearNext]_vars

\* Every handler that takes db_lock, two at a time, on Monday 2024-01-01 (all
\* three resets are due), one second after the bot recorded a session in a
\* channel the member has left since, and with every coroutine that can run
\* getting its turn.
LiveInit ==
    /\ clock = TicksPerSecond
    /\ voice_time = EmptyMap
    /\ active_sessions = [m \in Watched |-> [channel_id |-> 101, started_at |-> 0]]
    /\ presence = [m \in Members |-> IF m \in Watched THEN 102 ELSE NoChannel]
    /\ metadata = EmptyMap
    /\ db_lock = [holder |-> NoTask, waiters |-> <<>>]
    /\ tasks = [t \in Tasks |-> Idle]
    /\ calls = 0
    /\ last = Idle
    /\ today = 2
    /\ resets_done = EmptyMap
    /\ committed = Tables
    /\ bot = Started
    /\ embed = NoEmbed
    /\ week_start = [m \in {} |-> 0]

\* A step of the coroutine in slot t.
Step(t) ==
    \/ on_voice_state_update(t)
    \/ start_session(t)
    \/ end_session(t)
    \/ sync_active_sessions(t)
    \/ sync_write(t)
    \/ reconcile_active_sessions(t)
    \/ reconcile_write(t)
    \/ fetch_leaderboard(t)
    \/ fetch_user_position(t)
    \/ get_metadata(t)
    \/ delete_bucket(t)
    \/ set_metadata(t)

LiveNext ==
    \E t \in Tasks :
        \/ \E m \in Watched, c \in Channels \cup {NoChannel} : VoiceStateUpdate(t, m, c)
        \/ session_flush_loop(t)
        \/ rollover_loop(t)
        \/ on_ready(t)
        \/ \E m \in Watched : _render_leaderboard(t, m[1], "weekly", m[2])
        \/ Step(t)

LiveSpec == LiveInit /\ [][LiveNext]_vars /\ \A t \in Tasks : WF_vars(Step(t))

(* Properties. *)

\* The seconds of a voice_time row; a missing row counts 0.
Seconds(vt, k) == IF k \in DOMAIN vt THEN vt[k] ELSE 0

\* This step is task t's lock block pc.
Ran(t, pc) == tasks[t].pc = pc /\ db_lock.holder = t /\ tasks'[t].pc # pc

\* The rows of the other members are the same before and after the step.
OthersUntouched(m) ==
    /\ \A k \in DOMAIN voice_time \cup DOMAIN voice_time' :
          ~(k[1] = m[1] /\ k[2] = m[2]) =>
             k \in DOMAIN voice_time /\ k \in DOMAIN voice_time' /\ voice_time'[k] = voice_time[k]
    /\ \A x \in DOMAIN active_sessions \cup DOMAIN active_sessions' :
          x # m =>
             x \in DOMAIN active_sessions /\ x \in DOMAIN active_sessions'
                /\ active_sessions'[x] = active_sessions[x]

\* Member m's four buckets grow by d in this step (rows made where missing).
Credited(m, d) ==
    \A b \in BUCKETS :
        /\ Key(m, b) \in DOMAIN voice_time'
        /\ voice_time'[Key(m, b)] = Seconds(voice_time, Key(m, b)) + d

\* Member m's voice_time rows are the same before and after the step.
NotCredited(m) ==
    \A b \in BUCKETS :
        /\ Key(m, b) \in DOMAIN voice_time' <=> Key(m, b) \in DOMAIN voice_time
        /\ Seconds(voice_time', Key(m, b)) = Seconds(voice_time, Key(m, b))

\* C1: while a user's session (open since time 0) is ended by end_session and
\* flushed by sync_active_sessions in any interleaving, no bucket of the user
\* ever holds more than the wall-clock time that has passed since the session
\* started: the session's time is credited once.
C1_EndSyncCreditOnce ==
    \A m \in Watched : \A b \in BUCKETS :
        Seconds(voice_time, Key(m, b)) * TicksPerSecond <= clock

\* C2: no other task runs a lock block between the block in which a
\* sync_active_sessions or reconcile_active_sessions reads active_sessions and
\* the block in which it writes what it derived from that read.
C2_NoBlockBetweenReadAndWrite ==
    \A t \in Tasks :
        tasks[t].pc \in {"sync_write", "reconcile_write"} => tasks[t].alone

\* C3: start_session for a member who has an ActiveSession row changes nothing:
\* the one row keeps its channel_id and its started_at, whatever the new channel.
C3_StartSessionIdempotent ==
    [][\A t \in Tasks :
          Ran(t, "start_session") /\ tasks[t].args.member \in DOMAIN active_sessions
             => active_sessions' = active_sessions /\ voice_time' = voice_time]_vars

C3_Witness ==
    /\ last.pc = "start_session"
    /\ last.args.member \in DOMAIN active_sessions
    /\ active_sessions[last.args.member].channel_id # last.args.channel_id
    /\ active_sessions[last.args.member].started_at < clock

\* C4 as stated: end_session on an existing session with elapsed = now -
\* started_at > 0 adds exactly elapsed to each of the four buckets, making the
\* rows, and deletes the session.
C4_EndSessionCreditsElapsed ==
    [][\A t \in Tasks :
          LET m == tasks[t].args.member IN
          Ran(t, "end_session") /\ m \in DOMAIN active_sessions
                /\ tasks[t].now > active_sessions[m].started_at
             => /\ \A b \in BUCKETS :
                     /\ Key(m, b) \in DOMAIN voice_time'
                     /\ voice_time'[Key(m, b)] * TicksPerSecond
                          = Seconds(voice_time, Key(m, b)) * TicksPerSecond
                              + (tasks[t].now - active_sessions[m].started_at)
                /\ m \notin DOMAIN active_sessions']_vars

\* C4 amended: end_session on an existing session adds the whole seconds of
\* now - started_at (the fraction cut off) to each of the four buckets when that
\* is at least 1, making the rows, and otherwise leaves voice_time as it is; it
\* deletes the session row; all in the one step, and no other row changes.
C4_EndSessionCreditsWholeSeconds ==
    [][\A t \in Tasks :
          LET m == tasks[t].args.member IN
          Ran(t, "end_session") /\ m \in DOMAIN active_sessions
             => /\ IF Duration(active_sessions[m].started_at, tasks[t].now) > 0
                   THEN Credited(m, Duration(active_sessions[m].started_at, tasks[t].now))
                   ELSE NotCredited(m)
                /\ m \notin DOMAIN active_sessions'
                /\ OthersUntouched(m)]_vars

C4_Witness ==
    /\ last.pc = "end_session"
    /\ last.args.member \in DOMAIN last.rows
    /\ Duration(last.rows[last.args.member], last.now) > 0
    /\ (last.now - last.rows[last.args.member]) % TicksPerSecond # 0
    /\ last.args.member \notin DOMAIN active_sessions
    /\ voice_time[Key(last.args.member, "weekly")] >= Duration(last.rows[last.args.member], last.now)

\* C5: end_session for a member with no ActiveSession row changes no table, and
\* the handler goes on to its next call (or returns) as after any end_session.
C5_EndSessionNoSession ==
    [][\A t \in Tasks :
          Ran(t, "end_session") /\ tasks[t].args.member \notin DOMAIN active_sessions
             => /\ UNCHANGED <<voice_time, active_sessions, metadata>>
                /\ tasks'[t].pc = IF tasks[t].todo = <<>> THEN "idle"
                                  ELSE Head(tasks[t].todo).op]_vars

C5_Witness ==
    /\ last.pc = "end_session"
    /\ DOMAIN last.rows = {}
    /\ DOMAIN voice_time # {}

\* Member m's session row is the same before and after the step.
SessionUntouched(m) ==
    /\ m \in DOMAIN active_sessions' <=> m \in DOMAIN active_sessions
    /\ m \in DOMAIN active_sessions => active_sessions'[m] = active_sessions[m]

\* C6: a session whose started_at is at or after the operation's "now" is
\* credited nothing: end_session leaves voice_time as it is, the reading block
\* of sync_active_sessions changes no table, its writing block changes neither
\* the voice_time rows nor the session row of such a member; and no step ever
\* lowers the seconds of a row.
C6_NoNegativeCredit ==
    [][/\ \A t \in Tasks :
            LET m == tasks[t].args.member IN
            Ran(t, "end_session") /\ m \in DOMAIN active_sessions
                  /\ active_sessions[m].started_at >= tasks[t].now
               => voice_time' = voice_time
       /\ \A t \in Tasks :
            Ran(t, "sync_active_sessions")
               => UNCHANGED <<voice_time, active_sessions>>
       /\ \A t \in Tasks :
            Ran(t, "sync_write")
               => \A m \in DOMAIN tasks[t].rows :
                     tasks[t].rows[m] >= tasks[t].now
                        => NotCredited(m) /\ SessionUntouched(m)
       /\ \A k \in DOMAIN voice_time \cap DOMAIN voice_time' :
            voice_time'[k] >= voice_time[k]]_vars

\* The clock of an end_session has gone backward: it took its "now" a second
\* or more before the session it ends was started.
C6_Witness ==
    /\ last.pc = "end_session"
    /\ last.args.member \in DOMAIN last.rows
    /\ Duration(last.rows[last.args.member], last.now) < 0
    /\ last.args.member \notin DOMAIN active_sessions

\* C7 as stated: sync_active_sessions adds elapsed to all four buckets and sets
\* started_at to its "now" for every session with elapsed = now - started_at > 0
\* (so it does not return after its reading block when there is one), and
\* neither block inserts or deletes a session row or changes a channel_id.
C7_FlushEverySessionWithElapsed ==
    [][\A t \in Tasks :
          /\ Ran(t, "sync_active_sessions") /\ tasks'[t].pc # "sync_write"
                => \A m \in DOMAIN last'.rows : ~(tasks[t].now > last'.rows[m])
          /\ Ran(t, "sync_write")
                => \A m \in DOMAIN tasks[t].rows :
                      tasks[t].now > tasks[t].rows[m]
                         => /\ \A b \in BUCKETS :
                                 Seconds(voice_time', Key(m, b)) * TicksPerSecond
                                   = Seconds(voice_time, Key(m, b)) * TicksPerSecond
                                       + (tasks[t].now - tasks[t].rows[m])
                            /\ m \in DOMAIN active_sessions
                                 => active_sessions'[m].started_at = tasks[t].now
          /\ Ran(t, "sync_active_sessions") \/ Ran(t, "sync_write")
                => /\ DOMAIN active_sessions' = DOMAIN active_sessions
                   /\ \A m \in DOMAIN active_sessions :
                         active_sessions'[m].channel_id = active_sessions[m].channel_id]_vars

\* C7 amended: for every session it read whose whole seconds of now -
\* started_at are at least 1, sync_active_sessions adds those seconds to all
\* four buckets and sets started_at of the member's session row to its "now";
\* a session with less than a second elapsed is not credited and its row is
\* left as it is; neither block inserts or deletes a session row or changes a
\* channel_id, and a sync that finds no such session writes nothing.
C7_FlushDoesNotClose ==
    [][\A t \in Tasks :
          /\ Ran(t, "sync_active_sessions")
                => /\ UNCHANGED <<voice_time, active_sessions>>
                   /\ tasks'[t].pc = "sync_write"
                        <=> \E m \in DOMAIN last'.rows : Duration(last'.rows[m], tasks[t].now) > 0
          /\ Ran(t, "sync_write")
                => /\ \A m \in Members :
                         IF m \in DOMAIN tasks[t].rows
                               /\ Duration(tasks[t].rows[m], tasks[t].now) > 0
                         THEN /\ Credited(m, Duration(tasks[t].rows[m], tasks[t].now))
                              /\ m \in DOMAIN active_sessions
                                   => active_sessions'[m]
                                        = [active_sessions[m] EXCEPT !.started_at = tasks[t].now]
                         ELSE NotCredited(m) /\ SessionUntouched(m)
                   /\ DOMAIN active_sessions' = DOMAIN active_sessions]_vars

C7_Witness ==
    /\ last.pc = "sync_write"
    /\ \E m \in DOMAIN last.rows :
          /\ Duration(last.rows[m], last.now) > 0
          /\ m \in DOMAIN active_sessions
          /\ active_sessions[m].started_at = last.now
          /\ voice_time[Key(m, "alltime")] >= Duration(last.rows[m], last.now)

\* The handler of task t is on_voice_state_update for a move between channels.
IsMove(rec) ==
    /\ rec.entry = "on_voice_state_update"
    /\ rec.event.before # NoChannel
    /\ rec.event.after # NoChannel

\* C8 as stated: in a move of a member with a session, with no other operation
\* in between, end_session adds exactly dt = now - started_at to all four
\* buckets and start_session leaves exactly one session, in the new channel,
\* started at the time of the start_session.
C8_MoveCreditsElapsed ==
    [][\A t \in Tasks :
          LET m == tasks[t].event.member IN
          /\ IsMove(tasks[t]) /\ Ran(t, "end_session") /\ m \in DOMAIN active_sessions
                /\ tasks[t].now >= active_sessions[m].started_at
                => \A b \in BUCKETS :
                      Seconds(voice_time', Key(m, b)) * TicksPerSecond
                        = Seconds(voice_time, Key(m, b)) * TicksPerSecond
                            + (tasks[t].now - active_sessions[m].started_at)
          /\ IsMove(tasks[t]) /\ Ran(t, "start_session") /\ tasks[t].alone
                /\ m \in DOMAIN tasks[t].rows
                => /\ voice_time' = voice_time
                   /\ m \in DOMAIN active_sessions'
                   /\ active_sessions'[m]
                        = [channel_id |-> tasks[t].event.after, started_at |-> clock]]_vars

\* C8 amended: in a move of a member with a session, with no other operation
\* in between, end_session adds the whole seconds of dt = now - started_at (the
\* fraction cut off, nothing when dt is under a second) to all four buckets and
\* deletes the session, and start_session adds no time and leaves exactly one
\* session for the member, in the new channel, started at the time of the
\* start_session; no other member's row changes.
C8_MoveCreditsWholeSeconds ==
    [][\A t \in Tasks :
          LET m == tasks[t].event.member IN
          /\ IsMove(tasks[t]) /\ Ran(t, "end_session") /\ m \in DOMAIN active_sessions
                => /\ IF Duration(active_sessions[m].started_at, tasks[t].now) > 0
                      THEN Credited(m, Duration(active_sessions[m].started_at, tasks[t].now))
                      ELSE NotCredited(m)
                   /\ m \notin DOMAIN active_sessions'
                   /\ tasks'[t].pc = "start_session"
                   /\ OthersUntouched(m)
          /\ IsMove(tasks[t]) /\ Ran(t, "start_session") /\ tasks[t].alone
                /\ m \in DOMAIN tasks[t].rows
                => /\ voice_time' = voice_time
                   /\ m \in DOMAIN active_sessions'
                   /\ active_sessions'[m]
                        = [channel_id |-> tasks[t].event.after, started_at |-> clock]
                   /\ OthersUntouched(m)]_vars

C8_Witness ==
    /\ last.pc = "start_session"
    /\ IsMove(last)
    /\ last.alone
    /\ last.event.member \in DOMAIN last.rows
    /\ Duration(last.rows[last.event.member], last.now) > 0
    /\ (last.now - last.rows[last.event.member]) % TicksPerSecond # 0
    /\ last.event.member \in DOMAIN active_sessions
    /\ active_sessions[last.event.member]
         = [channel_id |-> last.event.after, started_at |-> clock]
    /\ active_sessions[last.event.member].channel_id # last.event.before
    /\ voice_time[Key(last.event.member, "yearly")]
         = Duration(last.rows[last.event.member], last.now)

\* The recorded sessions are exactly the members of the snapshot, each in its
\* live channel.
SessionsMatch(sessions, live) ==
    /\ DOMAIN sessions = DOMAIN live
    /\ \A m \in DOMAIN live : sessions[m].channel_id = live[m]

\* C9: when reconcile_active_sessions ends with no other operation run since
\* its read (it returns after the read, or it has written), the recorded
\* sessions are exactly the snapshot it took of the client's voice channels.
C9_ReconcileMatchesSnapshot ==
    [][\A t \in Tasks :
          /\ Ran(t, "reconcile_active_sessions") /\ tasks'[t].pc # "reconcile_write"
                => SessionsMatch(active_sessions', last'.live_voice)
          /\ Ran(t, "reconcile_write") /\ tasks[t].alone
                => SessionsMatch(active_sessions', tasks[t].live_voice)]_vars

\* Both members were live, one whose record was in another channel and one
\* with no record.
C9_Witness ==
    /\ last.pc = "reconcile_write"
    /\ last.alone
    /\ DOMAIN last.live_voice = Members
    /\ DOMAIN last.finalize_ops # {}
    /\ DOMAIN last.start_ops # DOMAIN last.finalize_ops
    /\ SessionsMatch(active_sessions, last.live_voice)

\* C10 as stated: the write of reconcile_active_sessions closes a session it
\* read in a channel other than the live one with exactly now - started_at
\* credited to all four buckets (if positive) and, if the member is live,
\* replaces it by a session with started_at = now.
C10_ReconcileCreditsElapsed ==
    [][\A t \in Tasks :
          Ran(t, "reconcile_write")
             => \A m \in DOMAIN tasks[t].finalize_ops :
                   /\ \A b \in BUCKETS :
                         Seconds(voice_time', Key(m, b)) * TicksPerSecond
                           = Seconds(voice_time, Key(m, b)) * TicksPerSecond
                               + (IF tasks[t].now > tasks[t].finalize_ops[m]
                                  THEN tasks[t].now - tasks[t].finalize_ops[m]
                                  ELSE 0)
                   /\ IF m \in DOMAIN tasks[t].start_ops
                      THEN /\ m \in DOMAIN active_sessions'
                           /\ active_sessions'[m]
                                = [channel_id |-> tasks[t].start_ops[m],
                                   started_at |-> tasks[t].now]
                      ELSE m \notin DOMAIN active_sessions']_vars

\* C10 amended: reconcile_active_sessions does at most one close and one start
\* per member.  Its read changes no table and lists for closing the recorded
\* sessions whose channel is not the member's live channel, and for starting
\* the live members among them and those with no record.  Its write credits a
\* listed session the whole seconds of now - started_at (as read; nothing under
\* one second) in all four buckets, deletes the member's row and, if the member
\* is live, puts a row in the live channel whose started_at is the time of the
\* write, which may be later than the "now" the close was credited to; a live
\* member with no record gets such a row unless one has appeared meanwhile; a
\* recorded session in its live channel, and a member with neither, is left
\* untouched.
C10_ReconcileOneCloseOneStart ==
    [][\A t \in Tasks :
          /\ Ran(t, "reconcile_active_sessions")
                => /\ UNCHANGED <<voice_time, active_sessions>>
                   /\ \A m \in Members :
                         LET listed == m \in DOMAIN active_sessions
                                         /\ active_sessions[m].channel_id # presence[m]
                         IN /\ m \in DOMAIN last'.finalize_ops <=> listed
                            /\ listed => last'.finalize_ops[m] = active_sessions[m].started_at
                            /\ m \in DOMAIN last'.start_ops
                                 <=> /\ presence[m] # NoChannel
                                     /\ listed \/ m \notin DOMAIN active_sessions
                            /\ m \in DOMAIN last'.start_ops
                                 => last'.start_ops[m] = presence[m]
          /\ Ran(t, "reconcile_write")
                => \A m \in Members :
                      LET fin == tasks[t].finalize_ops
                          sta == tasks[t].start_ops
                      IN IF m \in DOMAIN fin
                         THEN /\ IF Duration(fin[m], tasks[t].now) > 0
                                 THEN Credited(m, Duration(fin[m], tasks[t].now))
                                 ELSE NotCredited(m)
                              /\ IF m \in DOMAIN sta
                                 THEN /\ m \in DOMAIN active_sessions'
                                      /\ active_sessions'[m]
                                           = [channel_id |-> sta[m], started_at |-> clock]
                                 ELSE m \notin DOMAIN active_sessions'
                         ELSE IF m \in DOMAIN sta
                         THEN /\ NotCredited(m)
                              /\ m \in DOMAIN active_sessions'
                              /\ active_sessions'[m]
                                   = IF m \in DOMAIN active_sessions
                                     THEN active_sessions[m]
                                     ELSE [channel_id |-> sta[m], started_at |-> clock]
                         ELSE NotCredited(m) /\ SessionUntouched(m)]_vars

\* A recorded session in another channel than the live one was closed with a
\* second or more credited, and replaced later than the "now" of the close.
C10_Witness ==
    /\ last.pc = "reconcile_write"
    /\ \E m \in DOMAIN last.finalize_ops :
          /\ m \in DOMAIN last.start_ops
          /\ Duration(last.finalize_ops[m], last.now) > 0
          /\ voice_time[Key(m, "monthly")] >= Duration(last.finalize_ops[m], last.now)
          /\ m \in DOMAIN active_sessions
          /\ active_sessions[m] = [channel_id |-> last.live_voice[m], started_at |-> clock]
          /\ clock > last.now

\* C11: while reconcile_active_sessions closes a stale session and presence
\* events and flushes run between its read and its write, the write of
\* reconcile counts nothing twice: if no voice_time row held more whole seconds
\* than have passed since the session started (time 0) before the write, none
\* does after it.
C11_ReconcileCreditOnce ==
    [][\A t \in Tasks :
          /\ Ran(t, "reconcile_write")
          /\ \A k \in DOMAIN voice_time : voice_time[k] <= clock \div TicksPerSecond
          => \A k \in DOMAIN voice_time' : voice_time'[k] <= clock \div TicksPerSecond]_vars

\* The bucket a reset handler of task t works on, and the local date it took.
BucketOf(t) == tasks[t].args.bucket

DateOf(t) == Calendar[tasks[t].now_local]

\* The label of bucket b that is stored for the date d, written out.
StoredFor(b, d) ==
    \/ b = "weekly" /\ "weekly_reset" \in DOMAIN metadata
          /\ metadata["weekly_reset"] = <<d.year, d.month, d.day>>
    \/ b = "monthly" /\ "monthly_reset" \in DOMAIN metadata
          /\ metadata["monthly_reset"] = <<d.year, d.month>>
    \/ b = "yearly" /\ "yearly_reset" \in DOMAIN metadata
          /\ metadata["yearly_reset"] = <<d.year>>

\* The bulk deletes run so far for bucket b in the period of the date d.
DeletesFor(b, d) ==
    LET p == <<b, IF b = "weekly" THEN <<d.year, d.month, d.day>>
                  ELSE IF b = "monthly" THEN <<d.year, d.month>> ELSE <<d.year>>>>
    IN IF p \in DOMAIN resets_done THEN resets_done[p] ELSE 0

\* C12: with every call of handle_periodic_resets run to its end, a bucket is
\* bulk-deleted at most once per period: a handler that finds the period's label
\* stored changes no table and goes on, a bulk delete runs only when no delete
\* has run for the period and its label is not stored, and no other step
\* removes a voice_time row, so what is credited after the delete survives.
C12_ResetOncePerPeriod ==
    [][/\ \A t \in Tasks :
            /\ Ran(t, "get_metadata") /\ StoredFor(BucketOf(t), DateOf(t))
                  => /\ UNCHANGED <<voice_time, active_sessions, metadata>>
                     /\ tasks'[t].pc # "delete_bucket"
            /\ Ran(t, "delete_bucket")
                  => /\ DeletesFor(BucketOf(t), DateOf(t)) = 0
                     /\ ~StoredFor(BucketOf(t), DateOf(t))
       /\ \A k \in DOMAIN voice_time \ DOMAIN voice_time' :
            \E t \in Tasks : Ran(t, "delete_bucket") /\ BucketOf(t) = k[3]]_vars

\* A second call on the same Monday found the label, and the weekly rows
\* credited since the delete are there.
C12_Witness ==
    /\ last.pc = "get_metadata"
    /\ last.args.bucket = "weekly"
    /\ last.last_reset = <<2024, 1, 1>>
    /\ DeletesFor("weekly", Calendar[last.now_local]) = 1
    /\ \E k \in DOMAIN voice_time : k[3] = "weekly" /\ voice_time[k] > 0

\* C13: over any execution, with the process stopped and started again at any
\* point, a bucket is bulk-deleted at most once for a calendar period.
C13_ResetExactlyOnce ==
    \A p \in DOMAIN resets_done : resets_done[p] <= 1

\* C14: a bulk delete of a bucket is run only by a call that took a local date
\* on the bucket's boundary day (Monday; day 1; January 1), it leaves no row of
\* the bucket in any guild, and the label then stored is that date's (ISO
\* date; year and month; year); no other step changes a reset label.
C14_ResetOnlyOnBoundaryDay ==
    [][/\ \A t \in Tasks :
            /\ Ran(t, "delete_bucket") \/ Ran(t, "set_metadata")
                  => /\ BucketOf(t) \in {"weekly", "monthly", "yearly"}
                     /\ BucketOf(t) = "weekly" => DateOf(t).weekday = 0
                     /\ BucketOf(t) = "monthly" => DateOf(t).day = 1
                     /\ BucketOf(t) = "yearly" => DateOf(t).month = 1 /\ DateOf(t).day = 1
            /\ Ran(t, "delete_bucket")
                  => \A k \in DOMAIN voice_time' : k[3] # BucketOf(t)
            /\ Ran(t, "set_metadata")
                  => LET d == DateOf(t)
                     IN /\ BucketOf(t) = "weekly"
                             => metadata'["weekly_reset"] = <<d.year, d.month, d.day>>
                        /\ BucketOf(t) = "monthly"
                             => metadata'["monthly_reset"] = <<d.year, d.month>>
                        /\ BucketOf(t) = "yearly"
                             => metadata'["yearly_reset"] = <<d.year>>
       /\ metadata' # metadata => \E t \in Tasks : Ran(t, "set_metadata")]_vars

\* On Thursday, February 1 the monthly reset has run over the rows of two
\* guilds, and the weekly and yearly rows and labels are as they were.
C14_Witness ==
    /\ last.pc = "set_metadata"
    /\ last.args.bucket = "monthly"
    /\ Calendar[last.now_local].weekday # 0
    /\ metadata = [k \in {"monthly_reset"} |-> <<2024, 2>>]
    /\ \A k \in DOMAIN voice_time : k[3] # "monthly"
    /\ \E k1, k2 \in DOMAIN voice_time : k1[3] = "weekly" /\ k2[3] = "weekly" /\ k1[1] # k2[1]

C16_FlushedBeforeReset ==
    [][\A t \in Tasks :
          Ran(t, "delete_bucket")
             => \A m \in DOMAIN active_sessions :
                   active_sessions[m].started_at >= tasks[t].now]_vars

\* C16 amended: when a bucket is bulk-deleted, the sync at the head of the call
\* has run, and every active session started less than one second before that
\* sync's "now": a session with a whole second or more elapsed was credited and
\* its started_at advanced, one with less was left as it was, so less than one
\* second from before the flush can be credited into the new period.
C16_FlushedBeforeResetWithinASecond ==
    [][\A t \in Tasks :
          Ran(t, "delete_bucket")
             => /\ tasks[t].entry = "rollover_loop"
                /\ \A m \in DOMAIN active_sessions :
                      active_sessions[m].started_at + TicksPerSecond > tasks[t].now]_vars

\* The weekly delete ran over a session that a sync had advanced, and that was
\* under a second old at the sync of this call.
C16_Witness ==
    /\ last.pc = "delete_bucket"
    /\ \E m \in DOMAIN active_sessions :
          /\ active_sessions[m].started_at > 0
          /\ active_sessions[m].started_at < last.now
          /\ active_sessions[m].started_at + TicksPerSecond > last.now
          /\ voice_time[Key(m, "alltime")] > 0

\* The users with a row in (guild_id, bucket).
UsersIn(guild_id, bucket) ==
    {k[2] : k \in {x \in DOMAIN voice_time : x[1] = guild_id /\ x[3] = bucket}}

\* C17: fetch_leaderboard returns at most leaderboard_limit rows (all of them
\* when there are no more), each a stored row of the guild and bucket asked
\* for, no user twice, in non-increasing order of seconds, and no row left out
\* has more seconds than a row returned; it changes no table.
C17_LeaderboardTopN ==
    [][\A t \in Tasks :
          Ran(t, "fetch_leaderboard")
             => LET g == tasks[t].args.guild_id
                    b == tasks[t].args.bucket
                    r == last'.top_rows
                    returned == {r[i][1] : i \in 1..Len(r)}
                IN /\ Len(r) <= leaderboard_limit
                   /\ Len(r) < leaderboard_limit => returned = UsersIn(g, b)
                   /\ \A i \in 1..Len(r) :
                         /\ <<g, r[i][1], b>> \in DOMAIN voice_time
                         /\ voice_time[<<g, r[i][1], b>>] = r[i][2]
                   /\ \A i, j \in 1..Len(r) :
                         i < j => r[i][2] >= r[j][2] /\ r[i][1] # r[j][1]
                   /\ \A u \in UsersIn(g, b) \ returned : \A i \in 1..Len(r) :
                         voice_time[<<g, u, b>>] <= r[i][2]
                   /\ UNCHANGED <<voice_time, active_sessions, metadata>>]_vars

\* Three users of the guild have rows, two are returned with different
\* seconds, the one left out ties with the last one returned, and a row of the
\* other guild holds more than that.
C17_Witness ==
    /\ last.pc = "fetch_leaderboard"
    /\ Len(last.top_rows) = leaderboard_limit
    /\ Cardinality(UsersIn(last.args.guild_id, last.args.bucket)) > leaderboard_limit
    /\ last.top_rows[1][2] > last.top_rows[Len(last.top_rows)][2]
    /\ \E u \in UsersIn(last.args.guild_id, last.args.bucket) :
          /\ \A i \in 1..Len(last.top_rows) : last.top_rows[i][1] # u
          /\ voice_time[<<last.args.guild_id, u, last.args.bucket>>]
               = last.top_rows[Len(last.top_rows)][2]
    /\ \E k \in DOMAIN voice_time :
          /\ k[1] # last.args.guild_id /\ k[3] = last.args.bucket
          /\ voice_time[k] > last.top_rows[Len(last.top_rows)][2]

\* C18: fetch_user_position for a user with a row returns the stored seconds
\* and 1 + the number of users of the same guild and bucket with strictly more
\* seconds, so users with equal seconds get the same rank and rows of other
\* guilds or buckets do not count.
C18_UserPositionRank ==
    [][\A t \in Tasks :
          LET g == tasks[t].args.guild_id
              u == tasks[t].args.user_id
              b == tasks[t].args.bucket
          IN Ran(t, "fetch_user_position") /\ <<g, u, b>> \in DOMAIN voice_time
                => last'.subject_stats
                     = <<voice_time[<<g, u, b>>],
                         1 + Cardinality({x \in UsersIn(g, b) :
                                             voice_time[<<g, x, b>>] > voice_time[<<g, u, b>>]})>>]_vars

\* Rank 2, with another user of the guild at the same seconds, and more seconds
\* than the subject's in a row of the other guild and in a row of another bucket.
C18_Witness ==
    /\ last.pc = "fetch_user_position"
    /\ last.subject_stats # NoRow
    /\ last.subject_stats[2] = 2
    /\ \E x \in UsersIn(last.args.guild_id, last.args.bucket) :
          /\ x # last.args.user_id
          /\ voice_time[<<last.args.guild_id, x, last.args.bucket>>] = last.subject_stats[1]
    /\ \E k \in DOMAIN voice_time :
          k[1] # last.args.guild_id /\ k[3] = last.args.bucket
             /\ voice_time[k] > last.subject_stats[1]
    /\ \E k \in DOMAIN voice_time :
          /\ k[1] = last.args.guild_id /\ k[3] # last.args.bucket
          /\ voice_time[k] > last.subject_stats[1]

\* C19: fetch_user_position returns None exactly when the user has no row for
\* the guild and bucket, and otherwise a pair with the stored seconds; it
\* changes no table and the command goes on to its end.
C19_UserPositionAbsent ==
    [][\A t \in Tasks :
          LET k == <<tasks[t].args.guild_id, tasks[t].args.user_id, tasks[t].args.bucket>>
          IN Ran(t, "fetch_user_position")
                => /\ last'.subject_stats = NoRow <=> k \notin DOMAIN voice_time
                   /\ k \in DOMAIN voice_time
                         => Len(last'.subject_stats) = 2
                              /\ last'.subject_stats[1] = voice_time[k]
                   /\ UNCHANGED <<voice_time, active_sessions, metadata>>
                   /\ tasks'[t].pc = "idle"]_vars

\* After the weekly reset, a user with a session and an alltime row has no
\* weekly row, and the answer is None.
C19_Witness ==
    /\ last.pc = "fetch_user_position"
    /\ last.subject_stats = NoRow
    /\ last.args.bucket = "weekly"
    /\ <<last.args.guild_id, last.args.user_id>> \in DOMAIN active_sessions
    /\ <<last.args.guild_id, last.args.user_id, "alltime">> \in DOMAIN voice_time
    /\ \E p \in DOMAIN resets_done : p[1] = "weekly"

\* C20: the one step of clear_guild_stats leaves no voice_time row and no
\* session of the guild, and changes no row of another guild and no label.
C20_ClearGuildStats ==
    [][\A t \in Tasks :
          Ran(t, "clear_guild_stats")
             => LET g == tasks[t].args.guild_id
                IN /\ \A k \in DOMAIN voice_time' : k[1] # g
                   /\ \A m \in DOMAIN active_sessions' : m[1] # g
                   /\ \A k \in DOMAIN voice_time :
                         k[1] # g => k \in DOMAIN voice_time' /\ voice_time'[k] = voice_time[k]
                   /\ \A m \in DOMAIN active_sessions :
                         m[1] # g => m \in DOMAIN active_sessions'
                                       /\ active_sessions'[m] = active_sessions[m]
                   /\ metadata' = metadata]_vars

\* Guild 1 was cleared while its member is in a channel; the rows and the
\* session of guild 2 and the reset labels are in place.
C20_Witness ==
    /\ last.pc = "clear_guild_stats"
    /\ last.args.guild_id = 1
    /\ \A m \in Members : presence[m] # NoChannel
    /\ DOMAIN active_sessions = {m \in Members : m[1] # 1}
    /\ {k[1] : k \in DOMAIN voice_time} = {m[1] : m \in Members} \ {1}
    /\ metadata # EmptyMap

\* C21: the seconds of a voice_time row are never negative, and no step lowers
\* or removes a row other than the bulk delete of a periodic reset of the row's
\* bucket and the clear_guild_stats of the row's guild.
C21_SecondsMonotone ==
    [][/\ \A k \in DOMAIN voice_time' : voice_time'[k] >= 0
       /\ \A k \in DOMAIN voice_time :
            \/ k \in DOMAIN voice_time' /\ voice_time'[k] >= voice_time[k]
            \/ \E t \in Tasks : Ran(t, "delete_bucket") /\ tasks[t].args.bucket = k[3]
            \/ \E t \in Tasks : Ran(t, "clear_guild_stats") /\ tasks[t].args.guild_id = k[1]]_vars

\* A flush has credited a session after the weekly reset: the weekly row holds
\* less than the alltime row, which went on growing over the reset.
C21_Witness ==
    /\ last.pc = "sync_write"
    /\ \E p \in DOMAIN resets_done : p[1] = "weekly"
    /\ \E m \in Members :
          /\ Key(m, "weekly") \in DOMAIN voice_time
          /\ Key(m, "alltime") \in DOMAIN voice_time
          /\ voice_time[Key(m, "weekly")] > 0
          /\ voice_time[Key(m, "alltime")] > voice_time[Key(m, "weekly")]

\* C22: the started_at of a stored session only moves forward: no step sets the
\* started_at of a member's session row to an earlier time than the row held
\* before the step.
C22_StartedAtMovesForward ==
    [][\A m \in DOMAIN active_sessions \cap DOMAIN active_sessions' :
          active_sessions'[m].started_at >= active_sessions[m].started_at]_vars

\* C23: a commit persists the statements of the operation that commits and
\* nothing else: whenever the database file changes, the connection held no
\* uncommitted statement of an earlier operation, so what an operation wrote
\* before it raised is never persisted.
C23_CommitOwnStatementsOnly ==
    [][committed' # committed => Tables = committed]_vars

\* This step is a lock block of task t raising.
Raised(t) == db_lock.holder = t /\ last'.error /\ tasks'[t].pc = "idle"

\* C24: when a lock block of a tick of the flush loop or the reset loop raises
\* a storage error, the tick ends, the lock is released (handed to the first
\* waiter) and both loops are still running, so that the loop's next tick can
\* start; no step of these runs stops a loop.
C24_FailedTickKeepsLoops ==
    [][/\ \A t \in Tasks :
            Raised(t) /\ tasks[t].entry \in {"session_flush_loop", "rollover_loop"}
               => /\ tasks'[t].entry = "none"
                  /\ db_lock'.holder # t
                  /\ \A i \in 1..Len(db_lock'.waiters) : db_lock'.waiters[i] # t
                  /\ db_lock.waiters = <<>> => db_lock'.holder = NoTask
                  /\ db_lock.waiters # <<>> => db_lock'.holder = Head(db_lock.waiters)
       /\ bot'.session_flush_loop /\ bot'.rollover_loop]_vars

\* The writing block of a tick of the flush loop raised, and the loop's next
\* tick has started and holds the lock.
C24_Witness ==
    /\ last.error /\ last.entry = "session_flush_loop" /\ last.pc = "sync_write"
    /\ \E t \in Tasks :
          /\ tasks[t].entry = "session_flush_loop"
          /\ tasks[t].pc = "sync_active_sessions"
          /\ db_lock.holder = t

\* This step is VoiceTrackingService.close() run by task t.
Closing(t) == tasks[t].pc = "close" /\ bot.db /\ ~bot'.db

\* C25: close() runs its last sync_active_sessions only when both loops are
\* cancelled and their ticks have ended, and closes the store only after that
\* sync; when the store is closed, every persisted session has been credited
\* up to the "now" of that sync (its started_at is less than a second before
\* it) and credited once (a session open since time 0 has no more seconds in a
\* bucket than have passed), the sync has deleted no session row, and after the
\* close no table changes.
C25_ShutdownFlush ==
    [][/\ \A t \in Tasks :
            tasks[t].entry = "close"
                  /\ tasks[t].pc \in {"sync_active_sessions", "sync_write", "close"}
               => /\ ~bot.rollover_loop /\ ~bot.session_flush_loop
                  /\ \A x \in Tasks :
                        tasks[x].entry \notin {"rollover_loop", "session_flush_loop"}
       /\ \A t \in Tasks :
            tasks[t].entry = "close"
                  /\ (Ran(t, "sync_active_sessions") \/ Ran(t, "sync_write"))
               => DOMAIN active_sessions' = DOMAIN active_sessions
       /\ \A t \in Tasks :
            Closing(t)
               => /\ \A m \in DOMAIN committed'.active_sessions :
                        committed'.active_sessions[m].started_at + TicksPerSecond
                           > tasks[t].now
                  /\ \A k \in DOMAIN committed'.voice_time :
                        committed'.voice_time[k] * TicksPerSecond <= clock
       /\ ~bot.db => ~bot'.db /\ committed' = committed /\ Tables' = Tables]_vars

\* now - started_at of member m's session.
Uncredited(m) == clock - active_sessions[m].started_at

RECURSIVE Value(_)
Value(d) == IF d = <<>> THEN 0 ELSE Value(SubSeq(d, 1, Len(d) - 1)) * 10 + d[Len(d)]

\* A field of the rendered text: digits only, at least two of them, and a third
\* or later one only when the number needs it.
Padded(d) ==
    /\ Len(d) >= 2
    /\ \A i \in 1..Len(d) : d[i] \in 0..9
    /\ Len(d) > 2 => d[1] # 0

\* C27: the rendered text is hours, minutes and secs in the fixed format, each
\* zero-padded to at least two digits, with hours*3600 + minutes*60 + secs =
\* max(0, s), minutes and secs below 60; 3661 gives 01/01/01 and a negative
\* input 00/00/00.
C27_HumanizeDuration ==
    embed.text # NoEmbed =>
        LET s       == embed.seconds
            hours   == Value(embed.text[1])
            minutes == Value(embed.text[3])
            secs    == Value(embed.text[5])
        IN /\ Len(embed.text) = 6
           /\ <<embed.text[2], embed.text[4], embed.text[6]>> = <<"h ", "m ", "s">>
           /\ Padded(embed.text[1]) /\ Padded(embed.text[3]) /\ Padded(embed.text[5])
           /\ hours * 3600 + minutes * 60 + secs = (IF s < 0 THEN 0 ELSE s)
           /\ minutes \in 0..59
           /\ secs \in 0..59
           /\ s = 3661 => <<embed.text[1], embed.text[3], embed.text[5]>>
                             = <<(<<0, 1>>), (<<0, 1>>), (<<0, 1>>)>>
           /\ s < 0 => <<embed.text[1], embed.text[3], embed.text[5]>>
                             = <<(<<0, 0>>), (<<0, 0>>), (<<0, 0>>)>>

\* 3661 seconds have been rendered as 01, 01 and 01.
C27_Witness ==
    /\ embed.text # NoEmbed
    /\ embed.seconds = 3661
    /\ embed.text[1] = <<0, 1>> /\ embed.text[3] = <<0, 1>> /\ embed.text[5] = <<0, 1>>

\* What member m's alltime total was at the start of the most recent Monday.
WeekStart(m) == IF m \in DOMAIN week_start THEN week_start[m] ELSE 0

\* C28: the weekly bucket covers Monday-to-now: on a day that is not itself a
\* Monday (where the check may not have run yet), a member's weekly total holds
\* no second credited before the most recent Monday began, that is, no more than
\* the alltime total has grown since then.
C28_WeeklySinceMonday ==
    Calendar[today].weekday # 0 =>
        \A k \in DOMAIN voice_time :
            k[3] = "weekly" =>
                voice_time[k] + WeekStart(<<k[1], k[2]>>)
                    <= Seconds(voice_time, <<k[1], k[2], "alltime">>)

\* The service calls a handler has ahead of it, the one it is in included.
Planned(rec) ==
    IF rec.pc = "idle" THEN <<>> ELSE <<Call(rec.pc, rec.args)>> \o rec.todo

\* C29: on_voice_state_update calls, for a member that is not a bot,
\* start_session alone on a join, end_session alone on a leave, end_session and
\* then start_session with the new channel on a move between two channels, and
\* nothing when the channel stays the same; for a bot account it calls nothing,
\* and no bot account ever has a session.
C29_AdapterCalls ==
    [][/\ \A t \in Tasks :
            tasks[t].pc = "dispatched" /\ tasks'[t].pc # "dispatched" =>
                LET e == tasks[t].event
                    m == e.member
                    plan == Planned(tasks'[t])
                IN /\ m \in Bots => plan = <<>>
                   /\ m \notin Bots /\ e.before = NoChannel /\ e.after # NoChannel
                        => plan = <<[op |-> "start_session",
                                     args |-> [member |-> m, channel_id |-> e.after]]>>
                   /\ m \notin Bots /\ e.before # NoChannel /\ e.after = NoChannel
                        => plan = <<[op |-> "end_session", args |-> [member |-> m]]>>
                   /\ m \notin Bots /\ e.before # NoChannel /\ e.after # NoChannel
                         /\ e.before # e.after
                        => plan = <<[op |-> "end_session", args |-> [member |-> m]],
                                    [op |-> "start_session",
                                     args |-> [member |-> m, channel_id |-> e.after]]>>
                   /\ m \notin Bots /\ e.before = e.after => plan = <<>>
       /\ \A b \in Bots : b \notin DOMAIN active_sessions']_vars

\* The handler of a move is in its end_session with the start_session for the
\* new channel still to come, after the handler of a bot account's join has
\* returned without a session for the bot.
C29_Witness ==
    \E t \in Tasks :
        /\ IsMove(tasks[t])
        /\ tasks[t].pc = "end_session"
        /\ tasks[t].todo = <<Call("start_session", [member |-> tasks[t].event.member,
                                                    channel_id |-> tasks[t].event.after])>>
        /\ \A x \in Tasks \ {t} : tasks[x].pc = "idle"
        /\ \E b \in Bots : presence[b] # NoChannel /\ b \notin DOMAIN active_sessions

\* C30: once every dispatched handler has returned, a member that is not a bot
\* has a session exactly when they are in a voice channel, and the session's
\* channel_id is that channel.
C30_PresenceAndSessionsAgree ==
    (\A t \in Tasks : tasks[t].pc = "idle") =>
        \A m \in Watched :
            /\ m \in DOMAIN active_sessions <=> presence[m] # NoChannel
            /\ m \in DOMAIN active_sessions => active_sessions[m].channel_id = presence[m]

\* C31: for a member who joined at time 0 and leaves at t1, with flushes in
\* between and one operation at a time, the end_session of the leave brings
\* every bucket of the member to the (whole seconds of the) time from the join
\* to t1: no interval is counted twice and none is skipped.
C31_LifecycleConservation ==
    [][\A t \in Tasks :
          LET m == tasks[t].args.member IN
          Ran(t, "end_session") /\ m \in DOMAIN active_sessions
             => \A b \in BUCKETS :
                   Seconds(voice_time', Key(m, b)) = Duration(0, tasks[t].now)]_vars

\* C32: sync_active_sessions(guild_id = g) reads the sessions of guild g alone
\* and changes no voice_time row and no session row of another guild;
\* sync_active_sessions(None) reads the sessions of every guild and credits each
\* of them that has a whole second to add.
C32_SyncScopedToGuild ==
    [][\A t \in Tasks :
          LET g == tasks[t].args.guild_id IN
          /\ Ran(t, "sync_active_sessions")
                => /\ UNCHANGED <<voice_time, active_sessions>>
                   /\ DOMAIN last'.rows
                        = {m \in DOMAIN active_sessions : g = NoGuild \/ m[1] = g}
          /\ Ran(t, "sync_write") /\ g # NoGuild
                => /\ \A k \in DOMAIN voice_time \cup DOMAIN voice_time' :
                         k[1] # g => /\ k \in DOMAIN voice_time
                                     /\ k \in DOMAIN voice_time'
                                     /\ voice_time'[k] = voice_time[k]
                   /\ DOMAIN active_sessions' = DOMAIN active_sessions
                   /\ \A m \in DOMAIN active_sessions :
                         m[1] # g => active_sessions'[m] = active_sessions[m]
          /\ Ran(t, "sync_write") /\ g = NoGuild
                => \A m \in DOMAIN active_sessions :
                      Duration(active_sessions[m].started_at, tasks[t].now) > 0
                         => /\ active_sessions'[m].started_at > active_sessions[m].started_at
                            /\ Seconds(voice_time', Key(m, "alltime"))
                                 > Seconds(voice_time, Key(m, "alltime"))]_vars

\* A sync of guild 1 has written while the session of a member of guild 2 had
\* a whole second to add, and that member has no row and the old started_at.
C32_Witness ==
    /\ last.pc = "sync_write"
    /\ last.args.guild_id = 1
    /\ \E m \in DOMAIN active_sessions :
          /\ m[1] = 2
          /\ Duration(active_sessions[m].started_at, last.now) > 0
          /\ Key(m, "alltime") \notin DOMAIN voice_time

\* The recorded sessions are the presence snapshot: same pairs, same channels.
Matches(sessions, live) ==
    /\ DOMAIN sessions = DOMAIN live
    /\ \A m \in DOMAIN sessions : sessions[m].channel_id = live[m]

\* C33: reconcile_active_sessions that finds the recorded sessions equal to the
\* presence snapshot returns after its reading block and writes nothing; so
\* does a second run that follows a finished first one at once (no other
\* handler in flight) with the same snapshot.
C33_ReconcileIdempotent ==
    [][\A t \in Tasks :
          /\ Ran(t, "reconcile_active_sessions")
                => UNCHANGED <<voice_time, active_sessions, metadata, committed>>
          /\ Ran(t, "reconcile_active_sessions") /\ Matches(active_sessions, LiveVoice)
                => tasks'[t].pc = "idle"
          /\ Ran(t, "reconcile_active_sessions")
                /\ last.pc \in {"reconcile_active_sessions", "reconcile_write"}
                /\ last.live_voice = LiveVoice
                /\ (\A x \in Tasks \ {t} : tasks[x].pc = "idle")
                => tasks'[t].pc = "idle"]_vars

\* A second on_ready is about to read right after a first one has closed and
\* started sessions, with the presence snapshot the first one took.
C33_Witness ==
    \E t \in Tasks :
        /\ tasks[t].pc = "reconcile_active_sessions"
        /\ db_lock.holder = t
        /\ last.pc = "reconcile_write"
        /\ DOMAIN last.finalize_ops # {}
        /\ DOMAIN last.start_ops # {}
        /\ last.live_voice = LiveVoice

\* C34: a sync_active_sessions or reconcile that read the sessions of guild g
\* before clear_guild_stats(g) and writes right after it (the clear is the block
\* that ran last) credits nothing to guild g: the guild's voice_time is still
\* empty after the write, since all the time it could add elapsed before the
\* clear.
C34_NoPreClearTimeAfterClear ==
    [][\A t \in Tasks :
          (Ran(t, "sync_write") \/ Ran(t, "reconcile_write"))
             /\ last.pc = "clear_guild_stats"
             /\ tasks[t].entry # "timeclean"
             => \A k \in DOMAIN voice_time' : k[1] # last.args.guild_id]_vars

\* The rows of every guild but g are the same before and after the step.
OtherGuildsUntouched(g) ==
    /\ \A k \in DOMAIN voice_time \cup DOMAIN voice_time' :
          k[1] # g => /\ k \in DOMAIN voice_time
                      /\ k \in DOMAIN voice_time'
                      /\ voice_time'[k] = voice_time[k]
    /\ \A m \in DOMAIN active_sessions \cup DOMAIN active_sessions' :
          m[1] # g => /\ m \in DOMAIN active_sessions
                      /\ m \in DOMAIN active_sessions'
                      /\ active_sessions'[m] = active_sessions[m]

C36_ShownIncludesOpenSession ==
    [][\A t \in Tasks :
          LET m == <<tasks[t].args.guild_id, tasks[t].args.user_id>> IN
          tasks[t].entry = "_render_leaderboard" /\ Ran(t, "fetch_user_position")
             /\ m \in DOMAIN active_sessions
             => /\ Duration(0, tasks[t].now) > 0 => last'.subject_stats # NoRow
                /\ last'.subject_stats # NoRow
                     => last'.subject_stats[1] = Duration(0, tasks[t].now)]_vars

\* C37: in every state and for every (guild, user), the alltime seconds are at
\* least the weekly, the monthly and the yearly seconds, an absent row counting
\* as 0.
C37_AlltimeAtLeastPeriodic ==
    \A k \in DOMAIN voice_time :
        voice_time[k] <= Seconds(voice_time, <<k[1], k[2], "alltime">>)

\* A member has been credited again after a reset: the weekly bucket holds
\* something, and less than alltime.
C37_Witness ==
    \E k \in DOMAIN voice_time :
        /\ k[3] = "weekly"
        /\ voice_time[k] > 0
        /\ voice_time[k] < Seconds(voice_time, <<k[1], k[2], "alltime">>)

\* C38: in every state and for every (guild, user), the monthly seconds are at
\* most the yearly seconds, an absent row counting as 0, also with a flush of
\* another task between the monthly and the yearly reset of one call.
C38_MonthlyAtMostYearly ==
    \A k \in DOMAIN voice_time :
        k[3] = "monthly" => voice_time[k] <= Seconds(voice_time, <<k[1], k[2], "yearly">>)

====
